---- MODULE Spec2Model ----
(***************************************************************************)
(* bitplay: the torrent session lifecycle of the streaming server.         *)
(*                                                                         *)
(* addTorrentHandler creates a session (temp directory, listen port,       *)
(* torrent client), waits for the metadata and stores the session in the   *)
(* sessions map; torrentHandler looks a session up and touches LastUsed;   *)
(* cleanupSessions sweeps the map and tears idle sessions down.  Every     *)
(* goroutine is a process of the model; a step of the model is one access  *)
(* to shared state (a sync.Map call, a mutex-protected section, a call     *)
(* into the torrent library or the file system).                           *)
(***************************************************************************)
EXTENDS Integers, Sequences, FiniteSets, TLC

(***************************************************************************)
(* Bounds of the model.                                                    *)
(***************************************************************************)
\* ports of the primary range [10000, 60000) that rand.Intn can draw
NPrimary == 2
\* ports of the fallback range [60000, 65000) that rand.Intn can draw
NFallback == 1
\* names os.MkdirTemp can give a directory
NDirs == 3
\* the 10 minute idle threshold, in ticks of the clock
IdleTicks == 1
\* POST requests to the add handler in one run: of clients posting at the
\* same time,
MaxPosts == 3
\* of one client beside a reader and the reaper,
LifePosts == 2
\* and of one client beside two readers
TouchPosts == 1
\* and of one client beside a reader of any file and the reaper
StreamPosts == 1
\* and of one client beside a change of the proxy settings
LinkPosts == 1
\* and of one client beside two readers of any file
TypePosts == 1
\* ... in the specification of the port allocator
PortPosts == 2
\* ... while the proxy settings are saved
ReloadPosts == 2
\* ... beside a reader of the settings and the reaper
WaitPosts == 2
\* the requests a client sends to the sync server
ListGets == 2
\* the requests of the sync server's clients while the lock is watched
CacheGets == 2
\* ... while the ticker runs
SyncGets == 1
\* the syncs that are run, the first one included
MaxSyncs == 2
\* the fetches of one sync that fail
MaxFailures == 1
\* the listings yts.mx has, one after the other
MaxListings == 2
\* the cues of a subtitle file and the lines of text of a cue
MaxCues == 2
MaxText == 2
\* the readers left open that are counted: MaxLeaked stands for "or more"
MaxLeaked == 2

(***************************************************************************)
(* Constants of the program.                                               *)
(***************************************************************************)
\* port := 10000 + rand.Intn(50000)
PrimaryBase == 10000
\* ... and how many there are
PrimarySpan == 50000
\* return 60000 + rand.Intn(5000)
FallbackBase == 60000
\* ... and how many there are
FallbackSpan == 5000
\* for i := 0; i < 50; i++
MaxTries == 50
\* io.LimitReader(reader, 10*1024*1024)
SubtitleLimit == 10485760
\* MAX_PAGES of the sync server
MAX_PAGES == 10
\* the pages syncCache takes of every sort combination, in the second text
PagesPerSort == 3
\* the limit of the requests of syncCache
SyncLimit == 20
\* the size of a subtitle file of 11 MiB
ElevenMiB == 11534336

PrimaryPorts == PrimaryBase .. (PrimaryBase + NPrimary - 1)
FallbackPorts == FallbackBase .. (FallbackBase + NFallback - 1)
Ports == PrimaryPorts \cup FallbackPorts

\* temp directories "bitplay-torrent-<n>"; 0 stands for the empty path ""
Dirs == 1 .. NDirs

\* info hashes of the magnets a client can post (the session IDs)
Hashes == {"h1", "h2"}
\* a magnet: the info hash of its xt parameter, and whether it carries
\* further parameters (a tracker, a display name)
Magnets == [xt : Hashes, tr : BOOLEAN]

\* goroutines serving POST /api/v1/torrent/add
Creators == {"c1", "c2"}
\* goroutines serving GET /api/v1/torrent/<id>[/stream/<n>]
Touchers == {"t1", "t2"}

\* *TorrentSession pointers; 0 is nil.  Enough for every session that owns
\* a directory plus every torn-down one a goroutine can still point to.
Refs == 1 .. (NDirs + Cardinality(Creators) + Cardinality(Touchers) + 1)

\* the saturated reading of time.Since: "more than IdleTicks ticks ago"
Stale == IdleTicks + 1

VARIABLES
    settings,   \* currentSettings: EnableProxy, ProxyURL, EnableProwlarr, ProwlarrHost
    usedPorts,  \* usedPorts sync.Map: the ports stored with value true
    dirs,       \* the temp directories that exist on disk
    undeleted,  \* directories on which os.RemoveAll reported an error
    clients,    \* open torrent.Client instances, named by their storage dir
    torrents,   \* torrents added to an open client and not dropped
    sessions,   \* sessions sync.Map: session ID -> *TorrentSession (0: none)
    heap,       \* the TorrentSession objects
    cr,         \* addTorrentHandler goroutines
    th,         \* torrentHandler goroutines
    rp,         \* the cleanupSessions goroutine
    posts,      \* the POST requests the clients have still to send
    openReaders, \* readers a handler that has returned left open (saturating)
    conv,       \* a call of convertSRTtoVTT: its input and what it returned
    settingsMutex, \* settingsMutex: the write lock and the count of read locks
    http,       \* http.DefaultTransport, proxyTransport and proxyClient
    sv,         \* goroutines of the settings handlers and the metadata handlers
    portMutex,  \* portMutex: some goroutine holds the lock
    syncServer  \* the sync server: its cache, its sync goroutine, its handlers

vars == <<settings, usedPorts, dirs, undeleted, clients, torrents, sessions,
          heap, cr, th, rp, posts, openReaders, conv, settingsMutex, http, sv,
          portMutex, syncServer>>

\* what the session lifecycle leaves alone
aux == <<openReaders, conv, settingsMutex, http, sv, portMutex, syncServer>>

(***************************************************************************)
(* TorrentSession objects.  LastUsed is kept as the time that has passed   *)
(* since it (time.Since(LastUsed) in ticks, saturating at Stale), so that  *)
(* the clock itself needs no bound.                                        *)
(***************************************************************************)
NoSession ==
    [ID |-> "", Port |-> 0, TempDataDir |-> 0, since |-> 0, torn |-> FALSE,
     Proxy |-> "off"]

Allocated(o) == heap[o].TempDataDir # 0

\* via: the HTTP client the handler resolves a link with; i and cand: the
\* loop variable of getAvailablePort and the port it drew last
CrIdle == [pc |-> "idle", proxy |-> "off", port |-> 0, dir |-> 0,
           client |-> FALSE, resp |-> <<>>, sess |-> 0, via |-> "", i |-> 0,
           cand |-> 0]

\* no stream was asked for
NoIndex == [stream |-> FALSE, isnum |-> FALSE, idx |-> 0]

\* want: parts[6] of a stream request, as strconv.Atoi sees it; file: the
\* place in Files() of the file that is streamed; reader: the reader the
\* handler opened; read: the bytes of the subtitle it has read; out: how
\* http.ServeContent ended; format: the format parameter of the query, where
\* the handler reads it; ctype: the Content-Type header of the response
ThIdle == [pc |-> "idle", ref |-> 0, now |-> 0, resp |-> <<>>, want |-> NoIndex,
           file |-> 0, reader |-> "none", read |-> 0, out |-> "", format |-> "",
           ctype |-> ""]

RpIdle == [pc |-> "wait", key |-> "", sess |-> 0, todo |-> {}, cleaned |-> 0,
           errs |-> {}]

\* Proxy URLs: two that url.Parse accepts and one that it rejects.
ProxyURLs == {"ok", "alt", "bad"}

\* createProxyDialer: err == nil
Parses(u) == u # "bad"

Goroutines == {"g1", "g2"}

SvIdle == [pc |-> "idle", kind |-> "", todo |-> <<>>, saw |-> "", client |-> "",
           path |-> "", resp |-> <<>>]

\* no subtitle is being converted
NoConv == [cues |-> <<>>, vtt |-> <<>>, done |-> FALSE]

(***************************************************************************)
(* The sync server (src/sync_server/main.go), a program of its own.  The   *)
(* file holds two texts of it: the first caches by page, limit and query,  *)
(* the second by the sort parameters as well.  A text is the sequence of   *)
(* the pieces that its underscores part.                                   *)
(***************************************************************************)
Builds == {1, 2}

\* every variable of the main server
bitplay == <<settings, usedPorts, dirs, undeleted, clients, torrents, sessions,
             heap, cr, th, rp, posts, openReaders, conv, settingsMutex, http, sv,
             portMutex>>

\* the numerals of 0 .. MAX_PAGES + 1, of the limits 5 and 20 among them
Numerals ==
    <<"0", "1", "2", "3", "4", "5", "6", "7", "8", "9", "10", "11", "12", "13", "14",
      "15", "16", "17", "18", "19", "20">>

\* page, _ := strconv.Atoi(pageStr): the number, and 0 when there is an
\* error (of the texts here those that are one numeral are numbers)
Atoi(s) ==
    IF Len(s) = 1 /\ \E n \in 1 .. Len(Numerals) : Numerals[n] = s[1]
    THEN (CHOOSE n \in 1 .. Len(Numerals) : Numerals[n] = s[1]) - 1
    ELSE 0

\* the verb %d of fmt.Sprintf
Itoa(n) == <<Numerals[n + 1]>>

\* r.URL.Query().Get(name) with its default: if s == "" { s = def }
OrDefault(s, def) == IF s = <<>> THEN def ELSE s

\* getCacheKey: fmt.Sprintf("search_%s_page_%d_limit_%d", ...) or
\* fmt.Sprintf("page_%d_limit_%d", ...), in the second text with
\* "_sort_%s_order_%s" at the end
getCacheKey(b, page, limit, query, sortBy, orderBy) ==
    (IF query # <<>>
     THEN <<"search">> \o query \o <<"page">>
     ELSE <<"page">>)
    \o Itoa(page) \o <<"limit">> \o Itoa(limit)
    \o (IF b = 2
        THEN <<"sort">> \o sortBy
             \o <<"order">> \o orderBy
        ELSE <<>>)

\* the defaults of the sort parameters
DateAdded == <<"date", "added">>
Desc == <<"desc">>

\* sortCombinations of the second text
sortCombinations ==
    << [sortBy |-> DateAdded, orderBy |-> Desc],
       [sortBy |-> <<"like", "count">>, orderBy |-> Desc],
       [sortBy |-> <<"download", "count">>, orderBy |-> Desc],
       [sortBy |-> <<"rating">>, orderBy |-> Desc],
       [sortBy |-> <<"seeds">>, orderBy |-> Desc] >>

\* the loops of syncCache laid out: the first text takes the pages 1 ..
\* MAX_PAGES, the second the pages 1 .. 3 of every sort combination
SyncTargets(b) ==
    IF b = 1
    THEN [k \in 1 .. MAX_PAGES |-> [page |-> k, sortBy |-> <<>>, orderBy |-> <<>>]]
    ELSE [k \in 1 .. (Len(sortCombinations) * PagesPerSort) |->
            [page |-> ((k - 1) % PagesPerSort) + 1,
             sortBy |-> sortCombinations[((k - 1) \div PagesPerSort) + 1].sortBy,
             orderBy |-> sortCombinations[((k - 1) \div PagesPerSort) + 1].orderBy]]

\* cacheKey := getCacheKey(page, 20, "", ...) of pass k of syncCache
SyncKey(b, k) ==
    getCacheKey(b, SyncTargets(b)[k].page, SyncLimit, <<>>, SyncTargets(b)[k].sortBy,
                SyncTargets(b)[k].orderBy)

\* What a client asks of /api/v2/list_movies.json: the default listing of the
\* pages 1 to 11, with the page left out, and with a page that is no number;
\* the limit given as it is by default, and another limit; a search; the
\* default sort given in full, and another sort.
NoParams == [page |-> <<>>, limit |-> <<>>, query_term |-> <<>>, sort_by |-> <<>>,
             order_by |-> <<>>]

ListRequests ==
    {[NoParams EXCEPT !.page = p] :
        p \in {<<>>, <<"x">>} \cup {Itoa(n) : n \in 1 .. (MAX_PAGES + 1)}}
    \cup {[NoParams EXCEPT !.page = <<"2">>, !.limit = <<"20">>],
          [NoParams EXCEPT !.page = <<"2">>, !.limit = <<"5">>],
          [NoParams EXCEPT !.query_term = <<"q">>],
          [NoParams EXCEPT !.sort_by = DateAdded, !.order_by = Desc],
          [NoParams EXCEPT !.page = <<"4">>, !.sort_by = <<"rating">>]}

\* cacheKey of handleListMovies for a request
ListKey(b, req) ==
    getCacheKey(b, Atoi(OrDefault(req.page, <<"1">>)),
                Atoi(OrDefault(req.limit, <<"20">>)), req.query_term,
                OrDefault(req.sort_by, DateAdded), OrDefault(req.order_by, Desc))

Listers == {"l1"}

SyIdle == [pc |-> "idle", k |-> 0, data |-> 0, failed |-> 0]

HlIdle == [pc |-> "idle", key |-> <<>>, data |-> 0, fetched |-> FALSE, hit |-> FALSE,
           resp |-> <<>>]

\* handleHealth
HhIdle == [pc |-> "idle", resp |-> <<>>]

\* the state after construction: an empty cache.data and the zero lastSync;
\* upstream is the listing that yts.mx serves, gets the requests to come
SyncBoot(b) ==
    [build |-> b, upstream |-> 1, data |-> <<>>, lastSync |-> 0, sy |-> SyIdle,
     hl |-> [h \in Listers |-> HlIdle], gets |-> ListGets,
     mu |-> [w |-> FALSE, r |-> 0], hh |-> HhIdle]

\* cache.data[cacheKey] = data
Put(d, k, v) == [x \in DOMAIN d \cup {k} |-> IF x = k THEN v ELSE d[x]]

\* a lookup that finds nothing
CachedNever(d, k) == FALSE

\* cachedData, exists := cache.data[cacheKey]
Cached(d, k) == k \in DOMAIN d

\* an error path that deletes the entry of the key
AfterFetchErrorDrop(d, k) == [x \in DOMAIN d \ {k} |-> d[x]]

\* if err != nil { ...; continue } and if err != nil { http.Error(...);
\* return }: the map is not touched
AfterFetchError(d, k) == d

\* syncCache is called: by startPeriodicSync at first, later by the ticker
SyStart ==
    /\ syncServer.sy.pc = "idle"
    /\ syncServer.lastSync < MaxSyncs
    /\ syncServer' = [syncServer EXCEPT !.sy = [SyIdle EXCEPT !.pc = "fetch", !.k = 1]]
    /\ UNCHANGED bitplay

\* data, err := fetchFromYTS(page, 20, "", ...); on an error: continue
SyFetch(ok) ==
    /\ syncServer.sy.pc = "fetch"
    /\ syncServer.sy.k <= Len(SyncTargets(syncServer.build))
    /\ ~ok => syncServer.sy.failed < MaxFailures
    /\ syncServer' = [syncServer EXCEPT
          !.data = IF ok THEN @
                   ELSE AfterFetchError(@, SyncKey(syncServer.build, syncServer.sy.k)),
          !.sy = IF ok
                 THEN [@ EXCEPT !.pc = "store", !.data = syncServer.upstream]
                 ELSE [@ EXCEPT !.k = @ + 1, !.failed = @ + 1]]
    /\ UNCHANGED bitplay

\* cache.Lock(); cache.data[cacheKey] = data; cache.Unlock()
SyStore ==
    /\ syncServer.sy.pc = "store"
    /\ syncServer' = [syncServer EXCEPT
                        !.data = Put(@, SyncKey(syncServer.build, syncServer.sy.k),
                                     syncServer.sy.data),
                        !.sy = [@ EXCEPT !.pc = "fetch", !.k = @ + 1, !.data = 0]]
    /\ UNCHANGED bitplay

\* the loops have ended: cache.lastSync = time.Now() (the syncs are counted)
SyEnd ==
    /\ syncServer.sy.pc = "fetch"
    /\ syncServer.sy.k > Len(SyncTargets(syncServer.build))
    /\ syncServer' = [syncServer EXCEPT !.lastSync = @ + 1,
                                        !.sy = [@ EXCEPT !.pc = "idle"]]
    /\ UNCHANGED bitplay

\* yts.mx has a new listing
Publish ==
    /\ syncServer.upstream < MaxListings
    /\ syncServer' = [syncServer EXCEPT !.upstream = @ + 1]
    /\ UNCHANGED bitplay

\* handleListMovies: the parameters are parsed and the key is looked up
\* under cache.RLock().  main serves requests once startPeriodicSync has
\* returned, which is after the first sync.
HlBegin(h, req) ==
    /\ syncServer.hl[h].pc = "idle"
    /\ syncServer.lastSync > 0
    /\ syncServer.gets > 0
    /\ syncServer' = [syncServer EXCEPT
          !.gets = @ - 1,
          !.hl[h] = IF Cached(syncServer.data, ListKey(syncServer.build, req))
                    THEN [@ EXCEPT !.pc = "respond", !.hit = TRUE,
                                   !.key = ListKey(syncServer.build, req),
                                   !.data = syncServer.data[ListKey(syncServer.build, req)]]
                    ELSE [@ EXCEPT !.pc = "fetch",
                                   !.key = ListKey(syncServer.build, req)]]
    /\ UNCHANGED bitplay

\* data, err := fetchFromYTS(...); on an error 500 and return
HlFetch(h, ok) ==
    /\ syncServer.hl[h].pc = "fetch"
    /\ syncServer' = [syncServer EXCEPT
          !.data = IF ok THEN @ ELSE AfterFetchError(@, syncServer.hl[h].key),
          !.hl[h] = IF ok
                    THEN [@ EXCEPT !.pc = "store", !.fetched = TRUE,
                                   !.data = syncServer.upstream]
                    ELSE [@ EXCEPT !.pc = "done", !.fetched = TRUE, !.resp = <<500>>]]
    /\ UNCHANGED bitplay

\* cache.Lock(); cache.data[cacheKey] = data; cache.Unlock()
HlStore(h) ==
    /\ syncServer.hl[h].pc = "store"
    /\ syncServer' = [syncServer EXCEPT
          !.data = Put(@, syncServer.hl[h].key, syncServer.hl[h].data),
          !.hl[h] = [@ EXCEPT !.pc = "respond"]]
    /\ UNCHANGED bitplay

\* json.NewEncoder(w).Encode(result)
HlRespond(h) ==
    /\ syncServer.hl[h].pc = "respond"
    /\ syncServer' = [syncServer EXCEPT
          !.hl[h] = [@ EXCEPT !.pc = "done", !.resp = <<200, syncServer.hl[h].data>>]]
    /\ UNCHANGED bitplay

\* the handler has returned
HlReturn(h) ==
    /\ syncServer.hl[h].pc = "done"
    /\ syncServer' = [syncServer EXCEPT !.hl[h] = HlIdle]
    /\ UNCHANGED bitplay

(***************************************************************************)
(* The sync server with the steps of cache.RWMutex.  cache.Lock() waits    *)
(* until no reader and no writer holds the lock, cache.RLock() until no    *)
(* writer holds it; the access and the unlock that follows it are one step.*)
(***************************************************************************)
\* RLock() of a sync.RWMutex: it waits for a writer only, and there is one more
\* reader
RLock(m) == [enabled |-> ~m.w, after |-> [m EXCEPT !.r = @ + 1]]

\* RUnlock()
RUnlock(m) == [m EXCEPT !.r = @ - 1]

\* a write lock that does not wait for the readers
WLockShared(m) == [enabled |-> ~m.w, after |-> [m EXCEPT !.w = TRUE]]

\* cache.Lock()
WLock(m) == [enabled |-> ~m.w /\ m.r = 0, after |-> [m EXCEPT !.w = TRUE]]

\* cache.Unlock()
WUnlock(m) == [m EXCEPT !.w = FALSE]

\* syncCache: cache.Lock() before cache.data[cacheKey] = data
SyLock ==
    /\ syncServer.sy.pc = "store"
    /\ WLock(syncServer.mu).enabled
    /\ syncServer' = [syncServer EXCEPT !.mu = WLock(@).after, !.sy.pc = "write"]
    /\ UNCHANGED bitplay

\* cache.data[cacheKey] = data; cache.Unlock(); the sleep, and the next pass
SyWrite ==
    /\ syncServer.sy.pc = "write"
    /\ syncServer' = [syncServer EXCEPT
                        !.data = Put(@, SyncKey(syncServer.build, syncServer.sy.k),
                                     syncServer.sy.data),
                        !.mu = WUnlock(@),
                        !.sy = [@ EXCEPT !.pc = "fetch", !.k = @ + 1, !.data = 0]]
    /\ UNCHANGED bitplay

\* the loops have ended: cache.Lock() before cache.lastSync = time.Now()
SyEndLock ==
    /\ syncServer.sy.pc = "fetch"
    /\ syncServer.sy.k > Len(SyncTargets(syncServer.build))
    /\ WLock(syncServer.mu).enabled
    /\ syncServer' = [syncServer EXCEPT !.mu = WLock(@).after, !.sy.pc = "stamp"]
    /\ UNCHANGED bitplay

\* cache.lastSync = time.Now(); cache.Unlock()
SyStamp ==
    /\ syncServer.sy.pc = "stamp"
    /\ syncServer' = [syncServer EXCEPT !.lastSync = @ + 1, !.mu = WUnlock(@),
                                        !.sy = [@ EXCEPT !.pc = "idle"]]
    /\ UNCHANGED bitplay

\* handleListMovies: the parameters are parsed, the key is made, cache.RLock()
HlRLock(h, req) ==
    /\ syncServer.hl[h].pc = "idle"
    /\ syncServer.lastSync > 0
    /\ syncServer.gets > 0
    /\ RLock(syncServer.mu).enabled
    /\ syncServer' = [syncServer EXCEPT
          !.gets = @ - 1,
          !.mu = RLock(@).after,
          !.hl[h] = [@ EXCEPT !.pc = "lookup", !.key = ListKey(syncServer.build, req)]]
    /\ UNCHANGED bitplay

\* cachedData, exists := cache.data[cacheKey]; cache.RUnlock()
HlLookup(h) ==
    /\ syncServer.hl[h].pc = "lookup"
    /\ syncServer' = [syncServer EXCEPT
          !.mu = RUnlock(@),
          !.hl[h] = IF Cached(syncServer.data, syncServer.hl[h].key)
                    THEN [@ EXCEPT !.pc = "respond", !.hit = TRUE,
                                   !.data = syncServer.data[syncServer.hl[h].key]]
                    ELSE [@ EXCEPT !.pc = "fetch"]]
    /\ UNCHANGED bitplay

\* handleListMovies: cache.Lock() before cache.data[cacheKey] = data
HlLock(h) ==
    /\ syncServer.hl[h].pc = "store"
    /\ WLock(syncServer.mu).enabled
    /\ syncServer' = [syncServer EXCEPT !.mu = WLock(@).after, !.hl[h].pc = "write"]
    /\ UNCHANGED bitplay

\* cache.data[cacheKey] = data; cache.Unlock()
HlWrite(h) ==
    /\ syncServer.hl[h].pc = "write"
    /\ syncServer' = [syncServer EXCEPT
          !.data = Put(@, syncServer.hl[h].key, syncServer.hl[h].data),
          !.mu = WUnlock(@),
          !.hl[h] = [@ EXCEPT !.pc = "respond"]]
    /\ UNCHANGED bitplay

\* handleHealth: cache.RLock()
HhRLock ==
    /\ syncServer.hh.pc = "idle"
    /\ syncServer.lastSync > 0
    /\ syncServer.gets > 0
    /\ RLock(syncServer.mu).enabled
    /\ syncServer' = [syncServer EXCEPT !.gets = @ - 1, !.mu = RLock(@).after,
                                        !.hh.pc = "read"]
    /\ UNCHANGED bitplay

\* lastSync := cache.lastSync; cacheSize := len(cache.data); cache.RUnlock();
\* the response is written
HhRead ==
    /\ syncServer.hh.pc = "read"
    /\ syncServer' = [syncServer EXCEPT
          !.mu = RUnlock(@),
          !.hh = [pc |-> "done",
                  resp |-> <<200, syncServer.lastSync,
                             Cardinality(DOMAIN syncServer.data)>>]]
    /\ UNCHANGED bitplay

\* the handler has returned
HhReturn ==
    /\ syncServer.hh.pc = "done"
    /\ syncServer' = [syncServer EXCEPT !.hh = HhIdle]
    /\ UNCHANGED bitplay

Boot ==
    /\ settings = [EnableProxy |-> FALSE, ProxyURL |-> "ok", EnableProwlarr |-> FALSE,
                   ProwlarrHost |-> ""]
    /\ settingsMutex = [w |-> FALSE, r |-> 0]
    /\ http = [defaultDial |-> "direct", defaultIdle |-> {}, proxyDial |-> "unset",
               proxyIdle |-> {}, redirect |-> "follow"]
    /\ sv = [g \in Goroutines |-> SvIdle]
    /\ usedPorts = {}
    /\ dirs = {}
    /\ undeleted = {}
    /\ clients = {}
    /\ torrents = {}
    /\ sessions = [h \in Hashes |-> 0]
    /\ heap = [o \in Refs |-> NoSession]
    /\ cr = [c \in Creators |-> CrIdle]
    /\ th = [t \in Touchers |-> ThIdle]
    /\ rp = RpIdle
    /\ openReaders = 0
    /\ portMutex = FALSE

Init == Boot /\ conv = NoConv /\ syncServer = SyncBoot(2) /\ posts = LifePosts

InitCreate == Boot /\ conv = NoConv /\ syncServer = SyncBoot(2) /\ posts = MaxPosts

InitTouch == Boot /\ conv = NoConv /\ syncServer = SyncBoot(2) /\ posts = TouchPosts

InitStream == Boot /\ conv = NoConv /\ syncServer = SyncBoot(2) /\ posts = StreamPosts

(***************************************************************************)
(* The garbage collector: a session object is freed once it was torn down  *)
(* and neither the map nor a goroutine points to it.  An object that was   *)
(* dropped from the map without a teardown stays: its client, port and     *)
(* directory are still there.                                              *)
(***************************************************************************)
Reachable(o, m, c, t, r) ==
    \/ \E h \in Hashes : m[h] = o
    \/ \E p \in Creators : c[p].sess = o
    \/ \E p \in Touchers : t[p].ref = o
    \/ r.sess = o

Collect(hp, m, c, t, r) ==
    [o \in Refs |-> IF hp[o].torn /\ ~Reachable(o, m, c, t, r) THEN NoSession ELSE hp[o]]

\* the lowest free slot (the address the allocator returns)
NewRef == CHOOSE o \in Refs : ~Allocated(o) /\ \A q \in Refs : q < o => Allocated(q)

(***************************************************************************)
(* Port allocator                                                          *)
(***************************************************************************)
\* getAvailablePort: `misses` draws collide with a port in use, then either
\* `draw` is free and is stored and returned, or the MaxTries draws are used
\* up and the fallback port `fb` is returned without being stored.
CanDraw(used, misses, draw) ==
    /\ misses <= MaxTries
    /\ (misses > 0 => used \cap PrimaryPorts # {})
    /\ (misses < MaxTries => draw \notin used)

\* a getAvailablePort without usedPorts.Store(port, true)
getAvailablePortUnmarked(used, misses, draw, fb) ==
    [port |-> IF misses < MaxTries THEN draw ELSE fb, used |-> used]

getAvailablePort(used, misses, draw, fb) ==
    IF misses < MaxTries
    THEN [port |-> draw, used |-> used \cup {draw}]
    ELSE [port |-> fb, used |-> used]

\* portMutex.Lock(): waits until nobody holds the lock
Lock(m) == [enabled |-> ~m, after |-> TRUE]

\* an Unlock that leaves the lock as it is
UnlockNot(m) == m

\* defer portMutex.Unlock()
Unlock(m) == FALSE

\* rand.Intn(n): of the values 0 .. n - 1 the two least and the greatest
Intn(n) == {0, 1, n - 1}

\* for i := 0; i < 50; i++
MoreDraws(i) == i < MaxTries

\* port := 10000 + rand.Intn(50000)
Primary(r) == PrimaryBase + r

\* a last resort taken from the range of the draws
FallbackLow(r) == PrimaryBase + r

\* return 60000 + rand.Intn(5000)
Fallback(r) == FallbackBase + r

\* a releasePort that flips the entry: usedPorts.Store(port, !inUse)
releasePortFlip(used, port) == IF port \in used THEN used \ {port} ELSE used \cup {port}

\* a releasePort that leaves the mapping as it is
releasePortKeep(used, port) == used

\* releasePort: usedPorts.Delete(port)
releasePort(used, port) == used \ {port}

(***************************************************************************)
(* File system and torrent library                                         *)
(***************************************************************************)
\* os.MkdirTemp: a name that does not exist (the lowest here)
MkdirTemp(ds) == CHOOSE d \in Dirs : d \notin ds /\ \A e \in Dirs : e < d => e \in ds

\* an os.Remove in the place of os.RemoveAll: the directory holds the
\* downloaded pieces, so it is not empty and stays
RemoveOnly(ds, d, ok) == ds

\* os.RemoveAll(dir): ok, or an error that leaves the directory
RemoveAll(ds, d, ok) == IF ok THEN ds \ {d} ELSE ds

\* the directories on which os.RemoveAll has failed
Undeleted(un, d, ok) == IF ok THEN un ELSE un \cup {d}

(***************************************************************************)
(* addTorrentHandler                                                       *)
(***************************************************************************)
\* createSelectiveProxyClient: with the proxy disabled a new http.Client,
\* which sends through http.DefaultTransport; with the proxy enabled the
\* shared proxyClient, after proxyTransport.DialContext was set to the
\* dialer of the URL (a nil dialer when the URL does not parse: the error
\* of createProxyDialer is dropped) and its idle connections were closed
createSelectiveProxyClient(h, s) ==
    IF ~s.EnableProxy
    THEN [client |-> "default", http |-> h]
    ELSE [client |-> "proxy",
          http |-> [h EXCEPT !.proxyDial = IF Parses(s.ProxyURL) THEN s.ProxyURL
                                            ELSE "nil",
                             !.proxyIdle = {}]]

\* The paths a request of the client can take: a pooled idle connection of
\* its transport, or a new connection through the DialContext of the
\* transport ("nil": the dialer is nil and the dial panics).
Paths(h, client) ==
    IF client = "default"
    THEN h.defaultIdle \cup {h.defaultDial}
    ELSE h.proxyIdle \cup {IF h.proxyDial = "unset" THEN "direct" ELSE h.proxyDial}

\* the transport keeps the connection of a request that was answered
KeepAlive(h, client, path) ==
    IF client = "default"
    THEN [h EXCEPT !.defaultIdle = @ \cup {path}]
    ELSE [h EXCEPT !.proxyIdle = @ \cup {path}]

\* What a client can post: a body that is not JSON, an empty Magnet, a
\* string that is neither a magnet nor a link, a magnet, and an http link.
BadRequests == {"malformed", "empty", "garbage"}
GoodRequests == {"magnet", "link"}
Requests == BadRequests \cup GoodRequests

\* What the server of a link answers: a redirect to a magnet, a redirect
\* to something else, a page, or nothing (client.Do returns an error).
LinkAnswers == {"link_magnet", "link_other", "link_page", "link_fail"}

\* a check that lets a string through that is neither a magnet nor a link
ValidateLax(kind) ==
    CASE kind = "malformed"  -> <<400>>
      [] kind = "empty"      -> <<400, 400>>
      [] kind = "link_fail"  -> <<400>>
      [] kind = "link_other" -> <<400>>
      [] OTHER               -> <<>>

\* The statuses written before initTorrentWithProxy is called; <<>> when the
\* request holds a magnet (posted or found behind the link).
Validate(kind) ==
    CASE kind = "malformed"  -> <<400>>
      [] kind = "empty"      -> <<400, 400>>
      [] kind = "garbage"    -> <<400>>
      [] kind = "link_fail"  -> <<400>>
      [] kind = "link_other" -> <<400>>
      [] kind = "link_page"  -> <<400>>
      [] OTHER               -> <<>>

\* httpClient.CheckRedirect = func ... { return http.ErrUseLastResponse }:
\* the field of the client that createSelectiveProxyClient returned, which
\* is the shared proxyClient when the proxy is enabled
SetCheckRedirect(h, client) ==
    IF client = "proxy" THEN [h EXCEPT !.redirect = "stop"] ELSE h

\* the request is decoded and checked; for an http link the handler gets
\* its client from createSelectiveProxyClient and sets CheckRedirect
CrBegin(c, req) ==
    /\ cr[c].pc = "idle"
    /\ posts > 0
    /\ posts' = posts - 1
    /\ IF req = "link"
       THEN /\ RLock(settingsMutex).enabled
            /\ http' = SetCheckRedirect(createSelectiveProxyClient(http, settings).http,
                                        createSelectiveProxyClient(http, settings).client)
            /\ cr' = [cr EXCEPT ![c].pc = "resolve",
                                ![c].via = createSelectiveProxyClient(http, settings).client]
       ELSE /\ http' = http
            /\ cr' = [cr EXCEPT ![c] =
                        IF Validate(req) # <<>>
                        THEN [@ EXCEPT !.pc = "done", !.resp = Validate(req)]
                        ELSE [@ EXCEPT !.pc = "init"]]
    /\ UNCHANGED <<openReaders, conv, settingsMutex, sv, settings, usedPorts, dirs,
                   undeleted, clients, torrents, sessions, heap, th, rp,
                   portMutex, syncServer>>

\* resp, err := httpClient.Do(req) and what the handler makes of the
\* answer: 400 unless it is a redirect to a magnet.  A dial through a nil
\* dialer panics in the goroutine of the transport, where nothing recovers
\* it: the process ends, and the request is never answered.
CrResolve(c, path, ans) ==
    /\ cr[c].pc = "resolve"
    /\ path \in Paths(http, cr[c].via)
    /\ IF path = "nil"
       THEN /\ cr' = [cr EXCEPT ![c].pc = "panic"]
            /\ http' = http
       ELSE /\ cr' = [cr EXCEPT ![c] =
                        IF Validate(ans) # <<>>
                        THEN [@ EXCEPT !.pc = "done", !.resp = Validate(ans), !.via = ""]
                        ELSE [@ EXCEPT !.pc = "init", !.via = ""]]
            /\ http' = IF ans # "link_fail" THEN KeepAlive(http, cr[c].via, path)
                       ELSE http
    /\ UNCHANGED <<posts, openReaders, conv, settingsMutex, sv, settings, usedPorts,
                   dirs, undeleted, clients, torrents, sessions, heap, th, rp,
                   portMutex, syncServer>>

\* what a reader makes of EnableProxy and ProxyURL: no proxy, or the URL
Proxy(s) == IF s.EnableProxy THEN s.ProxyURL ELSE "off"

\* initTorrentWithProxy: settingsMutex.RLock(), the two fields are read,
\* settingsMutex.RUnlock()
CrReadSettings(c) ==
    /\ cr[c].pc = "init"
    /\ RLock(settingsMutex).enabled
    /\ cr' = [cr EXCEPT ![c].pc = "mkdir", ![c].proxy = Proxy(settings)]
    /\ settingsMutex' = RUnlock(RLock(settingsMutex).after)
    /\ UNCHANGED <<openReaders, conv, http, sv, portMutex, syncServer, posts, settings,
                   usedPorts, dirs, undeleted, clients, torrents, sessions, heap, th,
                   rp>>

\* os.MkdirTemp("", "bitplay-torrent-*")
CrMkdirTemp(c, ok) ==
    /\ cr[c].pc = "mkdir"
    /\ ok => dirs # Dirs
    /\ IF ok
       THEN /\ dirs' = dirs \cup {MkdirTemp(dirs)}
            /\ cr' = [cr EXCEPT ![c].pc = "port", ![c].dir = MkdirTemp(dirs)]
       ELSE /\ dirs' = dirs
            /\ cr' = [cr EXCEPT ![c].pc = "done", ![c].resp = <<500>>]
    /\ UNCHANGED <<aux, posts, settings, usedPorts, undeleted, clients, torrents,
                   sessions, heap, th, rp>>

\* port := getAvailablePort()
CrGetPort(c, misses, draw, fb) ==
    /\ cr[c].pc = "port"
    /\ Lock(portMutex).enabled
    /\ CanDraw(usedPorts, misses, draw)
    /\ usedPorts' = getAvailablePort(usedPorts, misses, draw, fb).used
    /\ cr' = [cr EXCEPT ![c].pc = "client",
                        ![c].port = getAvailablePort(usedPorts, misses, draw, fb).port]
    /\ UNCHANGED <<aux, posts, settings, dirs, undeleted, clients, torrents, sessions,
                   heap, th, rp>>

\* getAvailablePort step by step: portMutex.Lock()
PortLock(c) ==
    /\ cr[c].pc = "port"
    /\ Lock(portMutex).enabled
    /\ portMutex' = Lock(portMutex).after
    /\ cr' = [cr EXCEPT ![c].pc = "draw"]
    /\ UNCHANGED <<openReaders, conv, settingsMutex, http, sv, posts, settings,
                   usedPorts, dirs, undeleted, clients, torrents, sessions, heap, th, rp,
                   syncServer>>

\* ... one pass of the loop: a port is drawn; when usedPorts holds it the
\* loop goes on, otherwise it is stored and returned, and the deferred
\* Unlock runs
PortDraw(c, r) ==
    /\ cr[c].pc = "draw"
    /\ MoreDraws(cr[c].i)
    /\ IF Primary(r) \in usedPorts
       THEN /\ cr' = [cr EXCEPT ![c].i = @ + 1, ![c].cand = Primary(r)]
            /\ UNCHANGED <<usedPorts, portMutex>>
       ELSE /\ usedPorts' = usedPorts \cup {Primary(r)}
            /\ portMutex' = Unlock(portMutex)
            /\ cr' = [cr EXCEPT ![c].pc = "client", ![c].cand = Primary(r),
                                ![c].port = Primary(r)]
    /\ UNCHANGED <<openReaders, conv, settingsMutex, http, sv, posts, settings, dirs,
                   undeleted, clients, torrents, sessions, heap, th, rp, syncServer>>

\* ... the loop has ended: a port of the last resort is returned, and the
\* deferred Unlock runs
PortFallback(c, r) ==
    /\ cr[c].pc = "draw"
    /\ ~MoreDraws(cr[c].i)
    /\ portMutex' = Unlock(portMutex)
    /\ cr' = [cr EXCEPT ![c].pc = "client", ![c].port = Fallback(r)]
    /\ UNCHANGED <<openReaders, conv, settingsMutex, http, sv, posts, settings,
                   usedPorts, dirs, undeleted, clients, torrents, sessions, heap, th, rp,
                   syncServer>>

\* createProxyDialer (when the proxy is enabled) and torrent.NewClient
CrNewClient(c, ok) ==
    /\ cr[c].pc = "client"
    /\ ok => cr[c].proxy # "bad"
    /\ IF ok
       THEN /\ clients' = clients \cup {cr[c].dir}
            /\ cr' = [cr EXCEPT ![c].pc = "add", ![c].client = TRUE]
       ELSE /\ clients' = clients
            /\ cr' = [cr EXCEPT ![c].pc = "i_release", ![c].proxy = "off"]
    /\ UNCHANGED <<aux, posts, settings, usedPorts, dirs, undeleted, torrents, sessions,
                   heap, th, rp>>

\* the error paths of initTorrentWithProxy: releasePort(port)
CrInitRelease(c) ==
    /\ cr[c].pc = "i_release"
    /\ Lock(portMutex).enabled
    /\ usedPorts' = releasePort(usedPorts, cr[c].port)
    /\ cr' = [cr EXCEPT ![c].pc = "i_remove"]
    /\ UNCHANGED <<aux, posts, settings, dirs, undeleted, clients, torrents, sessions,
                   heap, th, rp>>

\* ... os.RemoveAll(tempDir), return err; the handler answers 500
CrInitRemove(c, ok) ==
    /\ cr[c].pc = "i_remove"
    /\ dirs' = RemoveAll(dirs, cr[c].dir, ok)
    /\ undeleted' = Undeleted(undeleted, cr[c].dir, ok)
    /\ cr' = [cr EXCEPT ![c].pc = "done", ![c].resp = <<500>>]
    /\ UNCHANGED <<aux, posts, settings, usedPorts, clients, torrents, sessions, heap,
                   th, rp>>

\* t, err := client.AddMagnet(magnet); on an error 400 and return, which
\* runs the deferred cleanup
CrAddMagnet(c, ok) ==
    /\ cr[c].pc = "add"
    /\ IF ok
       THEN /\ torrents' = torrents \cup {cr[c].dir}
            /\ cr' = [cr EXCEPT ![c].pc = "wait"]
       ELSE /\ torrents' = torrents
            /\ cr' = [cr EXCEPT ![c].pc = "d_release", ![c].resp = <<400>>]
    /\ UNCHANGED <<aux, posts, settings, usedPorts, dirs, undeleted, clients, sessions,
                   heap, th, rp>>

\* select: case <-t.GotInfo()
CrGotInfo(c) ==
    /\ cr[c].pc = "wait"
    /\ cr' = [cr EXCEPT ![c].pc = "store"]
    /\ UNCHANGED <<aux, posts, settings, usedPorts, dirs, undeleted, clients, torrents,
                   sessions, heap, th, rp>>

\* where the handler goes on after the 504 of the timeout case: the case
\* body holds no return, so the select ends and the session is stored
AfterTimeout == "store"

\* select: case <-time.After(3 * time.Minute)
CrTimeout(c) ==
    /\ cr[c].pc = "wait"
    /\ cr' = [cr EXCEPT ![c].pc = AfterTimeout, ![c].resp = <<504>>]
    /\ UNCHANGED <<aux, posts, settings, usedPorts, dirs, undeleted, clients, torrents,
                   sessions, heap, th, rp>>

\* an ID made from the whole text of the magnet
InfoHashOfText(m) ==
    IF m.tr THEN CHOOSE h \in Hashes : h # m.xt ELSE m.xt

\* t.InfoHash().HexString(): the hash the torrent was added under, which
\* AddMagnet takes from the xt parameter of the magnet
InfoHash(m) == m.xt

\* the TorrentSession the handler builds; h is the info hash.  Its Client
\* was configured by initTorrentWithProxy: config.HTTPProxy and the
\* proxyDialer close over the local proxyURL, a copy of the settings
NewSession(c, h) ==
    [ID |-> h, Port |-> cr[c].port, TempDataDir |-> cr[c].dir,
     since |-> 0, torn |-> FALSE, Proxy |-> cr[c].proxy]

\* the proxy a stored session's client goes on using, were it to follow
\* currentSettings
SessionProxyLive(o) == Proxy(settings)

\* the proxy a stored session's client goes on using: the URL its
\* configuration was built with
SessionProxy(o) == heap[o].Proxy

\* sessionID := t.InfoHash().HexString(); sessions.Store(sessionID,
\* &TorrentSession{...}); client = nil; 200.  m is the magnet that was
\* posted, which the handler first looks at here.
CrStore(c, m) ==
    /\ cr[c].pc = "store"
    /\ heap' = [heap EXCEPT ![NewRef] = NewSession(c, InfoHash(m))]
    /\ sessions' = [sessions EXCEPT ![InfoHash(m)] = NewRef]
    /\ cr' = [cr EXCEPT ![c].pc = "done", ![c].client = FALSE, ![c].sess = NewRef,
                        ![c].resp = Append(@, 200), ![c].proxy = "off"]
    /\ UNCHANGED <<aux, posts, settings, usedPorts, dirs, undeleted, clients, torrents,
                   th, rp>>

\* the deferred func, client != nil: releasePort(port)
CrDeferRelease(c) ==
    /\ cr[c].pc = "d_release"
    /\ Lock(portMutex).enabled
    /\ usedPorts' = releasePort(usedPorts, cr[c].port)
    /\ cr' = [cr EXCEPT ![c].pc = "d_close"]
    /\ UNCHANGED <<aux, posts, settings, dirs, undeleted, clients, torrents, sessions,
                   heap, th, rp>>

\* ... client.Close()
CrDeferClose(c) ==
    /\ cr[c].pc = "d_close"
    /\ clients' = clients \ {cr[c].dir}
    /\ torrents' = torrents \ {cr[c].dir}
    /\ cr' = [cr EXCEPT ![c].pc = "d_remove"]
    /\ UNCHANGED <<aux, posts, settings, usedPorts, dirs, undeleted, sessions, heap, th, rp>>

\* ... os.RemoveAll(tempDir)
CrDeferRemove(c, ok) ==
    /\ cr[c].pc = "d_remove"
    /\ dirs' = RemoveAll(dirs, cr[c].dir, ok)
    /\ undeleted' = Undeleted(undeleted, cr[c].dir, ok)
    /\ cr' = [cr EXCEPT ![c].pc = "done"]
    /\ UNCHANGED <<aux, posts, settings, usedPorts, clients, torrents, sessions, heap,
                   th, rp>>

\* the handler has returned: the goroutine ends
CrReturn(c) ==
    /\ cr[c].pc = "done"
    /\ cr' = [cr EXCEPT ![c] = CrIdle]
    /\ heap' = Collect(heap, sessions, cr', th, rp)
    /\ UNCHANGED <<aux, posts, settings, usedPorts, dirs, undeleted, clients, torrents,
                   sessions, th, rp>>

(***************************************************************************)
(* torrentHandler                                                          *)
(***************************************************************************)
\* a lookup that falls back to a session stored under another ID
LoadAny(m, sid) ==
    IF m[sid] # 0 \/ \A h \in Hashes : m[h] = 0
    THEN m[sid]
    ELSE m[CHOOSE h \in Hashes : m[h] # 0]

\* sessions.Load(sessionID): the value stored under the key, 0 when !ok
Load(m, sid) == m[sid]

\* the header http.Error sets before it writes the status
ErrorType == "text/plain; charset=utf-8"

\* the header respondWithJSON sets
JSONType == "application/json"

\* a handler that serves the session it found as it is
AfterLoadServe == "serve"

\* where the handler goes on with the session it found: session.LastUsed =
\* time.Now() is its next statement
AfterLoad == "now"

\* sessionValue, ok := sessions.Load(sessionID); 404 when !ok
ThBegin(t, sid) ==
    /\ th[t].pc = "idle"
    /\ th' = [th EXCEPT ![t] =
                IF Load(sessions, sid) = 0
                THEN [@ EXCEPT !.pc = "done", !.resp = <<404>>, !.ctype = JSONType]
                ELSE [@ EXCEPT !.pc = AfterLoad, !.ref = Load(sessions, sid)]]
    /\ UNCHANGED <<aux, posts, settings, usedPorts, dirs, undeleted, clients, torrents,
                   sessions, heap, cr, rp>>

\* session.LastUsed = time.Now(): the clock is read ...
ThNow(t) ==
    /\ th[t].pc = "now"
    /\ th' = [th EXCEPT ![t].pc = "store", ![t].now = 0]
    /\ UNCHANGED <<aux, posts, settings, usedPorts, dirs, undeleted, clients, torrents,
                   sessions, heap, cr, rp>>

\* ... and the value is written to the field, without any lock
ThStore(t) ==
    /\ th[t].pc = "store"
    /\ heap' = [heap EXCEPT ![th[t].ref].since = th[t].now]
    /\ th' = [th EXCEPT ![t].pc = "serve", ![t].now = 0]
    /\ UNCHANGED <<aux, posts, settings, usedPorts, dirs, undeleted, clients, torrents,
                   sessions, cr, rp>>

\* the file list or the stream is served
ThServe(t) ==
    /\ th[t].pc = "serve"
    /\ th' = [th EXCEPT ![t].pc = "done", ![t].resp = <<200>>, ![t].ctype = JSONType]
    /\ UNCHANGED <<aux, posts, settings, usedPorts, dirs, undeleted, clients, torrents,
                   sessions, heap, cr, rp>>

\* the extensions of the Content-Type switch, as texts of characters
Mp4 == <<".", "m", "p", "4">>
Webm == <<".", "w", "e", "b", "m">>
Mkv == <<".", "m", "k", "v">>
Avi == <<".", "a", "v", "i">>
Srt == <<".", "s", "r", "t">>
Vtt == <<".", "v", "t", "t">>
Sub == <<".", "s", "u", "b">>

\* session.Torrent.Files(), by display path and length: every torrent holds
\* a video, subtitle files of one byte, of the limit, of one byte more and
\* of 11 MiB, and then files of the other kinds: a.mp4, s.srt (four),
\* b.webm, C.MKV, d.avi, e.vtt, f.sub, g.txt, README, h.mp4/i and J.Srt
TorrentFiles ==
    << [name |-> <<"a">> \o Mp4, size |-> ElevenMiB],
       [name |-> <<"s">> \o Srt, size |-> 1],
       [name |-> <<"s">> \o Srt, size |-> SubtitleLimit],
       [name |-> <<"s">> \o Srt, size |-> SubtitleLimit + 1],
       [name |-> <<"s">> \o Srt, size |-> ElevenMiB],
       [name |-> <<"b">> \o Webm, size |-> 1],
       [name |-> <<"C", ".", "M", "K", "V">>, size |-> 1],
       [name |-> <<"d">> \o Avi, size |-> 1],
       [name |-> <<"e">> \o Vtt, size |-> 1],
       [name |-> <<"f">> \o Sub, size |-> 1],
       [name |-> <<"g", ".", "t", "x", "t">>, size |-> 1],
       [name |-> <<"R", "E", "A", "D", "M", "E">>, size |-> 1],
       [name |-> <<"h">> \o Mp4 \o <<"/", "i">>, size |-> 1],
       [name |-> <<"J", ".", "S", "r", "t">>, size |-> 1] >>

\* the files a client streams by their size: the video and the subtitles
Sized == 5

\* parts[6] without its .vtt suffix, when it is a number: an index of any
\* file, or one just out of range
AllIndexes == -1 .. Len(TorrentFiles)

\* ... of the requests for the video and the four subtitles
FileIndexes == {i \in AllIndexes : i < Sized \/ i = Len(TorrentFiles)}

\* filepath.Ext(path): the suffix that begins at the last dot of the last
\* element of the path, and the empty text when that element has no dot
RECURSIVE Ext(_)
Ext(path) ==
    IF path = <<>> \/ path[Len(path)] = "/" THEN <<>>
    ELSE IF path[Len(path)] = "."  THEN <<".">>
    ELSE LET rest == Ext(SubSeq(path, 1, Len(path) - 1))
         IN  IF rest = <<>> THEN <<>> ELSE Append(rest, path[Len(path)])

\* the lower-case letter of every upper-case letter of the file names
Lower ==
    [ch \in {"A", "C", "D", "E", "J", "K", "M", "R", "S", "V"} |->
        CASE ch = "A" -> "a" [] ch = "C" -> "c" [] ch = "D" -> "d" [] ch = "E" -> "e"
          [] ch = "J" -> "j" [] ch = "K" -> "k" [] ch = "M" -> "m" [] ch = "R" -> "r"
          [] ch = "S" -> "s" [] ch = "V" -> "v"]

\* a switch that tells upper case from lower case
ToLowerNot(s) == s

\* strings.ToLower
ToLower(s) == [i \in 1 .. Len(s) |-> IF s[i] \in DOMAIN Lower THEN Lower[s[i]] ELSE s[i]]

\* the Content-Type the switch on the extension sets; vtt: the query holds
\* format=vtt
ContentType(extension, vtt) ==
    CASE extension = Mp4 -> "video/mp4"
      [] extension = Webm -> "video/webm"
      [] extension = Mkv -> "video/x-matroska"
      [] extension = Avi -> "video/x-msvideo"
      [] extension = Srt -> IF vtt THEN "text/vtt" ELSE "text/plain"
      [] extension = Vtt -> "text/vtt"
      [] extension = Sub -> "text/plain"
      [] OTHER -> "application/octet-stream"

\* r.URL.Query().Get("format") == "vtt", which the .srt case alone reads
Format(extension, vtt) ==
    IF extension = Srt THEN (IF vtt THEN "vtt" ELSE "other") ELSE ""

\* the torrent of the session was dropped or its client was closed
EngineDown(o) ==
    \/ heap[o].torn
    \/ rp.sess = o /\ rp.pc \in {"close", "release", "remove", "delete"}
    \/ heap[o].TempDataDir \notin torrents

\* io.ReadAll(io.LimitReader(reader, n)): the bytes that are returned; EOF
\* after n bytes, with no error, when the file is longer
LimitReader(size, n) == IF size < n THEN size ELSE n

\* the list branch: index, name and size of every file of Files()
listFiles ==
    [i \in 1 .. Len(TorrentFiles) |->
        [index |-> i - 1, name |-> TorrentFiles[i].name, size |-> TorrentFiles[i].size]]

\* a handler that streams the first file whatever the index
FileAtFirst(idx) == 1

\* session.Torrent.Files()[fileIndex]: the place in the sequence of the
\* element that Go counts from zero
FileAt(idx) == idx + 1

\* parts[6] as the handler records it: the number, when it is one
Index(isnum, idx) == [stream |-> TRUE, isnum |-> isnum, idx |-> IF isnum THEN idx ELSE 0]

\* the stream branch: strconv.Atoi(fileIndexString), the range check against
\* len(session.Torrent.Files()), the Content-Type switch, and
\* reader := file.NewReader() of the branch that is taken
ThRoute(t, isnum, idx, vtt) ==
    /\ th[t].pc = "serve"
    /\ th' = [th EXCEPT ![t] =
                IF ~isnum
                THEN [@ EXCEPT !.pc = "done", !.resp = <<400>>,
                               !.want = Index(isnum, idx), !.ctype = ErrorType]
                ELSE IF idx < 0 \/ idx >= Len(TorrentFiles)
                THEN [@ EXCEPT !.pc = "done", !.resp = <<400>>,
                               !.want = Index(isnum, idx), !.ctype = ErrorType]
                ELSE LET extension == ToLower(Ext(TorrentFiles[FileAt(idx)].name))
                     IN  [@ EXCEPT !.pc = IF extension = Srt /\ vtt THEN "readall"
                                          ELSE "servecontent",
                                   !.file = FileAt(idx),
                                   !.reader = "open",
                                   !.want = Index(isnum, idx),
                                   !.format = Format(extension, vtt),
                                   !.ctype = ContentType(extension, vtt)]]
    /\ UNCHANGED <<aux, posts, settings, usedPorts, dirs, undeleted, clients, torrents,
                   sessions, heap, cr, rp>>

\* srtBytes, err := io.ReadAll(limitReader): 500 on an error; otherwise
\* w.Write(convertSRTtoVTT(srtBytes)).  The reader is not closed.
ThReadAll(t, ok) ==
    /\ th[t].pc = "readall"
    /\ ok => ~EngineDown(th[t].ref)
    /\ th' = [th EXCEPT ![t] =
                IF ok
                THEN [@ EXCEPT !.pc = "done", !.resp = <<200>>,
                               !.read = LimitReader(TorrentFiles[th[t].file].size,
                                                    SubtitleLimit)]
                ELSE [@ EXCEPT !.pc = "done", !.resp = <<500>>, !.ctype = ErrorType]]
    /\ UNCHANGED <<aux, posts, settings, usedPorts, dirs, undeleted, clients, torrents,
                   sessions, heap, cr, rp>>

\* how a read of the file can end: it cannot go on when the engine is down
ReadOutcomes(down) ==
    IF down THEN {"error", "cut"} ELSE {"complete", "disconnect", "error", "cut"}

\* the status the client has seen: 500 when the first read failed, 200
\* otherwise (the body is cut short when a later read failed or the client
\* went away)
Status(out) == IF out = "error" THEN <<500>> ELSE <<200>>

\* a handler that returns on an outcome without running the deferred func
AfterServeLeaky(out) == IF out = "complete" THEN "close" ELSE "done"

\* where the handler goes on after http.ServeContent: return, which runs
\* the deferred func
AfterServe(out) == "close"

\* http.ServeContent(w, r, fileName, time.Time{}, reader)
ThServeContent(t, out) ==
    /\ th[t].pc = "servecontent"
    /\ out \in ReadOutcomes(EngineDown(th[t].ref))
    /\ th' = [th EXCEPT ![t].pc = AfterServe(out), ![t].out = out,
                        ![t].resp = Status(out),
                        ![t].ctype = IF out = "error" THEN ErrorType ELSE @]
    /\ UNCHANGED <<aux, posts, settings, usedPorts, dirs, undeleted, clients, torrents,
                   sessions, heap, cr, rp>>

\* the deferred func: closer.Close()
ThDeferClose(t) ==
    /\ th[t].pc = "close"
    /\ th' = [th EXCEPT ![t].pc = "done", ![t].reader = "closed"]
    /\ UNCHANGED <<aux, posts, settings, usedPorts, dirs, undeleted, clients, torrents,
                   sessions, heap, cr, rp>>

\* one more reader that nobody will close
Leak(n) == IF n < MaxLeaked THEN n + 1 ELSE MaxLeaked

\* the handler has returned: the goroutine ends, and a reader it has not
\* closed stays open
ThReturn(t) ==
    /\ th[t].pc = "done"
    /\ th' = [th EXCEPT ![t] = ThIdle]
    /\ heap' = Collect(heap, sessions, cr, th', rp)
    /\ openReaders' = IF th[t].reader = "open" THEN Leak(openReaders) ELSE openReaders
    /\ UNCHANGED <<conv, settingsMutex, http, sv, posts, settings, usedPorts, dirs, undeleted, clients, torrents,
                   sessions, cr, rp, portMutex, syncServer>>

(***************************************************************************)
(* convertSRTtoVTT.  A text is the sequence of its characters.             *)
(***************************************************************************)
Digits == {"0", "1", "2", "3", "4", "5", "6", "7", "8", "9"}

\* the characters strings.TrimSpace cuts off
Spaces == {" ", "\t", "\r", "\n"}

Arrow == <<" ", "-", "-", ">", " ">>

RECURSIVE Concat(_)
\* the texts of a sequence, one after the other
Concat(ts) == IF ts = <<>> THEN <<>> ELSE Head(ts) \o Concat(Tail(ts))

\* strings.Split(s, "\n"): the pieces between the newlines, at least one
RECURSIVE SplitFrom(_, _)
SplitFrom(s, piece) ==
    IF s = <<>> THEN <<piece>>
    ELSE IF Head(s) = "\n" THEN <<piece>> \o SplitFrom(Tail(s), <<>>)
    ELSE SplitFrom(Tail(s), Append(piece, Head(s)))

Split(s) == SplitFrom(s, <<>>)

RECURSIVE TrimLeft(_)
TrimLeft(s) == IF s # <<>> /\ Head(s) \in Spaces THEN TrimLeft(Tail(s)) ELSE s

RECURSIVE TrimRight(_)
TrimRight(s) ==
    IF s # <<>> /\ s[Len(s)] \in Spaces THEN TrimRight(SubSeq(s, 1, Len(s) - 1)) ELSE s

\* strings.TrimSpace
TrimSpace(s) == TrimRight(TrimLeft(s))

\* _, err := strconv.Atoi(s); err == nil: an optional sign and then digits
\* only, at least one (the texts here are too short to overflow an int)
IsInt(s) ==
    LET d == IF s # <<>> /\ Head(s) \in {"+", "-"} THEN Tail(s) ELSE s
    IN  d # <<>> /\ \A i \in 1 .. Len(d) : d[i] \in Digits

\* strings.Contains(s, sub)
Contains(s, sub) ==
    \E i \in 1 .. (Len(s) - Len(sub) + 1) : SubSeq(s, i, i + Len(sub) - 1) = sub

\* strings.Replace(s, ",", ".", -1)
Replace(s) == [i \in 1 .. Len(s) |-> IF s[i] = "," THEN "." ELSE s[i]]

\* vttContent := "WEBVTT\n\n"
Header == <<"W", "E", "B", "V", "T", "T", "\n", "\n">>

RECURSIVE ConvertLines(_)
\* the loop over the lines
ConvertLines(lines) ==
    IF lines = <<>> THEN <<>>
    ELSE IF IsInt(TrimSpace(Head(lines))) THEN ConvertLines(Tail(lines))
    ELSE IF Contains(Head(lines), Arrow)
    THEN Replace(Head(lines)) \o <<"\n">> \o ConvertLines(Tail(lines))
    ELSE Head(lines) \o <<"\n">> \o ConvertLines(Tail(lines))

convertSRTtoVTT(srtBytes) == Header \o ConvertLines(Split(srtBytes))

\* The subtitle files that are converted: cues of an index line, a
\* timestamp line, one to MaxText lines of text, and a blank line or not.
IndexLines == {<<"1">>, <<"1", "2">>, <<" ", "2", "\r">>}

TimestampLines == {<<"0", "0", ":", "0", "0", ":", "2", "0", ",", "0", "0", "0", " ", "-", "-", ">", " ", "0", "0", ":", "0", "0", ":", "2", "4", ",", "4", "0", "0">>}

TextLines == {<<"H", "e", "l", "l", "o">>, <<"a", ",", " ", "b">>, <<"4", "2">>}

Cues ==
    [index : IndexLines, time : TimestampLines,
     text : UNION {[1 .. n -> TextLines] : n \in 1 .. MaxText}, gap : BOOLEAN]

\* the lines of a cue, as they stand in the file
CueLines(cue) ==
    <<cue.index, cue.time>> \o cue.text \o (IF cue.gap THEN << <<>> >> ELSE <<>>)

\* the file: every line with its newline
Render(cues) ==
    Concat([i \in 1 .. Len(cues) |->
               Concat([j \in 1 .. Len(CueLines(cues[i])) |->
                          CueLines(cues[i])[j] \o <<"\n">>])])

\* vttBytes := convertSRTtoVTT(srtBytes)
Convert ==
    /\ ~conv.done
    /\ conv.cues # <<>>
    /\ conv' = [conv EXCEPT !.vtt = convertSRTtoVTT(Render(conv.cues)), !.done = TRUE]
    /\ UNCHANGED <<posts, settings, usedPorts, dirs, undeleted, clients, torrents,
                   sessions, heap, cr, th, rp, openReaders, settingsMutex, http, sv,
                   portMutex, syncServer>>

(***************************************************************************)
(* The clock                                                               *)
(***************************************************************************)
Later(n) == IF n < Stale THEN n + 1 ELSE Stale

\* one tick passes: every time.Since grows by one
Tick ==
    /\ heap' = [o \in Refs |->
                  IF Allocated(o) THEN [heap[o] EXCEPT !.since = Later(@)] ELSE heap[o]]
    /\ th' = [t \in Touchers |->
                  IF th[t].pc = "store" THEN [th[t] EXCEPT !.now = Later(@)] ELSE th[t]]
    /\ UNCHANGED <<aux, posts, settings, usedPorts, dirs, undeleted, clients, torrents,
                   sessions, cr, rp>>

(***************************************************************************)
(* Settings                                                                *)
(***************************************************************************)
\* What the settings handlers are asked to do: the fields a save handler
\* assigns, in the order of its assignments.
ProxySaves ==
    {<< <<"EnableProxy", e>>, <<"ProxyURL", u>> >> : e \in BOOLEAN, u \in ProxyURLs}

ProwlarrSaves ==
    {<< <<"EnableProwlarr", e>>, <<"ProwlarrHost", h>> >> :
        e \in BOOLEAN, h \in {"", "host"}}

\* json.NewDecoder(r.Body).Decode(&newSettings): 400 when it fails
SvBegin(g, kind, todo, ok) ==
    /\ sv[g].pc = "idle"
    /\ sv' = [sv EXCEPT ![g] =
                IF ok
                THEN [@ EXCEPT !.pc = "rlock", !.kind = kind, !.todo = todo]
                ELSE [@ EXCEPT !.pc = "done", !.kind = kind, !.resp = <<400>>]]
    /\ UNCHANGED <<posts, settings, usedPorts, dirs, undeleted, clients, torrents,
                   sessions, heap, cr, th, rp, openReaders, conv, settingsMutex, http,
                   portMutex, syncServer>>

\* settingsMutex.RLock() of a save handler
SvRLock(g) ==
    /\ sv[g].pc = "rlock"
    /\ RLock(settingsMutex).enabled
    /\ settingsMutex' = RLock(settingsMutex).after
    /\ sv' = [sv EXCEPT ![g].pc = "assign"]
    /\ UNCHANGED <<posts, settings, usedPorts, dirs, undeleted, clients, torrents,
                   sessions, heap, cr, th, rp, openReaders, conv, http,
                   portMutex, syncServer>>

\* currentSettings.<field> = newSettings.<field>, one assignment
SvAssign(g) ==
    /\ sv[g].pc = "assign"
    /\ settings' = [settings EXCEPT ![Head(sv[g].todo)[1]] = Head(sv[g].todo)[2]]
    /\ sv' = [sv EXCEPT ![g].todo = Tail(@),
                        ![g].pc = IF Len(sv[g].todo) = 1 THEN "file" ELSE "assign"]
    /\ UNCHANGED <<posts, usedPorts, dirs, undeleted, clients, torrents,
                   sessions, heap, cr, th, rp, openReaders, conv, settingsMutex, http,
                   portMutex, syncServer>>

\* setGlobalProxy: with the proxy enabled and a URL that parses, the
\* DialContext of http.DefaultTransport is replaced; otherwise it returns
\* and the transport stays as it is
setGlobalProxy(h, s) ==
    IF s.EnableProxy /\ Parses(s.ProxyURL)
    THEN [h EXCEPT !.defaultDial = s.ProxyURL]
    ELSE h

\* saveSettingsToFile(): 500 on an error; then, in the proxy handler,
\* setGlobalProxy(); then 200.  The handler still holds its read lock.
SvFile(g, ok) ==
    /\ sv[g].pc = "file"
    /\ sv' = [sv EXCEPT ![g].pc = "runlock", ![g].resp = IF ok THEN <<200>> ELSE <<500>>]
    /\ http' = IF ok /\ sv[g].kind = "proxy" THEN setGlobalProxy(http, settings) ELSE http
    /\ UNCHANGED <<posts, settings, usedPorts, dirs, undeleted, clients, torrents,
                   sessions, heap, cr, th, rp, openReaders, conv, settingsMutex,
                   portMutex, syncServer>>

\* the deferred settingsMutex.RUnlock()
SvRUnlock(g) ==
    /\ sv[g].pc = "runlock"
    /\ settingsMutex' = RUnlock(settingsMutex)
    /\ sv' = [sv EXCEPT ![g].pc = "done"]
    /\ UNCHANGED <<posts, settings, usedPorts, dirs, undeleted, clients, torrents,
                   sessions, heap, cr, th, rp, openReaders, conv, http,
                   portMutex, syncServer>>

\* GET /api/v1/settings: settingsMutex.RLock() ...
SvGetRLock(g) ==
    /\ sv[g].pc = "idle"
    /\ RLock(settingsMutex).enabled
    /\ settingsMutex' = RLock(settingsMutex).after
    /\ sv' = [sv EXCEPT ![g].pc = "read", ![g].kind = "get"]
    /\ UNCHANGED <<posts, settings, usedPorts, dirs, undeleted, clients, torrents,
                   sessions, heap, cr, th, rp, openReaders, conv, http,
                   portMutex, syncServer>>

\* ... respondWithJSON(w, http.StatusOK, currentSettings)
SvGetRead(g) ==
    /\ sv[g].pc = "read"
    /\ sv' = [sv EXCEPT ![g].pc = "runlock", ![g].saw = Proxy(settings),
                        ![g].resp = <<200>>]
    /\ UNCHANGED <<posts, settings, usedPorts, dirs, undeleted, clients, torrents,
                   sessions, heap, cr, th, rp, openReaders, conv, settingsMutex, http,
                   portMutex, syncServer>>

\* a metadata handler (search, details, Prowlarr and Jackett queries):
\* client := createSelectiveProxyClient(), under settingsMutex.RLock
SvClient(g) ==
    /\ sv[g].pc = "idle"
    /\ RLock(settingsMutex).enabled
    /\ http' = createSelectiveProxyClient(http, settings).http
    /\ sv' = [sv EXCEPT ![g].pc = "do", ![g].kind = "fetch",
                        ![g].saw = Proxy(settings),
                        ![g].client = createSelectiveProxyClient(http, settings).client]
    /\ UNCHANGED <<posts, settings, usedPorts, dirs, undeleted, clients, torrents,
                   sessions, heap, cr, th, rp, openReaders, conv, settingsMutex,
                   portMutex, syncServer>>

\* resp, err := client.Do(req): the request is sent over one of the paths
\* and is answered or fails; a dial through a nil dialer panics in the
\* goroutine of the transport, where nothing recovers it
SvDo(g, path, ok) ==
    /\ sv[g].pc = "do"
    /\ path \in Paths(http, sv[g].client)
    /\ IF path = "nil"
       THEN /\ sv' = [sv EXCEPT ![g].pc = "panic"]
            /\ http' = http
       ELSE /\ sv' = [sv EXCEPT ![g].pc = "done", ![g].path = path,
                                ![g].resp = IF ok THEN <<200>> ELSE <<500>>]
            /\ http' = IF ok THEN KeepAlive(http, sv[g].client, path) ELSE http
    /\ UNCHANGED <<posts, settings, usedPorts, dirs, undeleted, clients, torrents,
                   sessions, heap, cr, th, rp, openReaders, conv, settingsMutex,
                   portMutex, syncServer>>

\* the handler has returned
SvReturn(g) ==
    /\ sv[g].pc = "done"
    /\ sv' = [sv EXCEPT ![g] = SvIdle]
    /\ UNCHANGED <<posts, settings, usedPorts, dirs, undeleted, clients, torrents,
                   sessions, heap, cr, th, rp, openReaders, conv, settingsMutex, http,
                   portMutex, syncServer>>

(***************************************************************************)
(* cleanupSessions                                                         *)
(***************************************************************************)
\* time.Since(session.LastUsed) > 10*time.Minute
Idle(s) == s.since > IdleTicks

\* for range ticker.C: a sweep starts; sessions.Range visits the keys that
\* are in the map, each with the value the map holds when it is visited
RpSweep ==
    /\ rp.pc = "wait"
    /\ rp' = [RpIdle EXCEPT !.pc = "range", !.todo = {h \in Hashes : sessions[h] # 0}]
    /\ UNCHANGED <<aux, posts, settings, usedPorts, dirs, undeleted, clients, torrents,
                   sessions, heap, cr, th>>

\* the callback is called for key k: session := value.(*TorrentSession)
RpVisit(k) ==
    /\ rp.pc = "range"
    /\ k \in rp.todo
    /\ rp' = IF sessions[k] = 0
             THEN [rp EXCEPT !.todo = @ \ {k}]
             ELSE [rp EXCEPT !.pc = "check", !.key = k, !.sess = sessions[k],
                             !.todo = @ \ {k}]
    /\ heap' = Collect(heap, sessions, cr, th, rp')
    /\ UNCHANGED <<aux, posts, settings, usedPorts, dirs, undeleted, clients, torrents,
                   sessions, cr, th>>

\* a callback that gives the session up after an error: it skips to
\* sessions.Delete(key)
AfterErrorSkip(next) == "delete"

\* a callback that ends the sweep after an error: return false
AfterErrorBreak(next) == "wait"

\* where the callback goes on after a teardown call that reported an error
\* (the errors are dropped: on with the next statement)
AfterError(next) == next

\* if time.Since(session.LastUsed) > 10*time.Minute { ... }; return true
RpCheck ==
    /\ rp.pc = "check"
    /\ rp' = [rp EXCEPT !.pc = IF Idle(heap[rp.sess]) THEN "drop" ELSE "range"]
    /\ UNCHANGED <<aux, posts, settings, usedPorts, dirs, undeleted, clients, torrents,
                   sessions, heap, cr, th>>

\* a reaper that lets the requests that read the session finish first
ReaperWaitsForReaders(o) == {t \in Touchers : th[t].ref = o /\ th[t].reader = "open"}

\* the requests the callback waits for before it tears session o down: it
\* takes no lock and looks at no count of readers
ReaperWaitsFor(o) == {}

\* session.Torrent.Drop()
RpDrop ==
    /\ rp.pc = "drop"
    /\ ReaperWaitsFor(rp.sess) = {}
    /\ torrents' = torrents \ {heap[rp.sess].TempDataDir}
    /\ rp' = [rp EXCEPT !.pc = "close"]
    /\ UNCHANGED <<aux, posts, settings, usedPorts, dirs, undeleted, clients, sessions,
                   heap, cr, th>>

\* session.Client.Close(): the errors it returns are dropped
RpClose(ok) ==
    /\ rp.pc = "close"
    /\ clients' = clients \ {heap[rp.sess].TempDataDir}
    /\ torrents' = torrents \ {heap[rp.sess].TempDataDir}
    /\ rp' = IF ok
             THEN [rp EXCEPT !.pc = "release"]
             ELSE [rp EXCEPT !.pc = AfterError("release"),
                             !.errs = @ \cup {<<rp.key, "close">>}]
    /\ UNCHANGED <<aux, posts, settings, usedPorts, dirs, undeleted, sessions, heap, cr, th>>

\* releasePort(session.Port)
RpRelease ==
    /\ rp.pc = "release"
    /\ Lock(portMutex).enabled
    /\ usedPorts' = releasePort(usedPorts, heap[rp.sess].Port)
    /\ rp' = [rp EXCEPT !.pc = "remove"]
    /\ UNCHANGED <<aux, posts, settings, dirs, undeleted, clients, torrents, sessions,
                   heap, cr, th>>

\* if session.TempDataDir != "" { os.RemoveAll(session.TempDataDir) }: the
\* error is dropped
RpRemove(ok) ==
    /\ rp.pc = "remove"
    /\ dirs' = RemoveAll(dirs, heap[rp.sess].TempDataDir, ok)
    /\ undeleted' = Undeleted(undeleted, heap[rp.sess].TempDataDir, ok)
    /\ rp' = IF ok
             THEN [rp EXCEPT !.pc = "delete"]
             ELSE [rp EXCEPT !.pc = AfterError("delete"),
                             !.errs = @ \cup {<<rp.key, "remove">>}]
    /\ UNCHANGED <<aux, posts, settings, usedPorts, clients, torrents, sessions, heap, cr, th>>

\* sessions.Delete(key); cleaned++; return true
RpDelete ==
    /\ rp.pc = "delete"
    /\ sessions' = [sessions EXCEPT ![rp.key] = 0]
    /\ heap' = [heap EXCEPT ![rp.sess].torn = TRUE]
    /\ rp' = [rp EXCEPT !.pc = "range", !.cleaned = @ + 1]
    /\ UNCHANGED <<aux, posts, settings, usedPorts, dirs, undeleted, clients, torrents, cr, th>>

\* Range has visited every key: if cleaned > 0 { runtime.GC() }, and the
\* loop waits for the next tick of the ticker
RpEnd ==
    /\ rp.pc = "range"
    /\ rp.todo = {}
    /\ rp' = RpIdle
    /\ heap' = Collect(heap, sessions, cr, th, rp')
    /\ UNCHANGED <<aux, posts, settings, usedPorts, dirs, undeleted, clients, torrents,
                   sessions, cr, th>>

(***************************************************************************)
(* The system                                                              *)
(***************************************************************************)
Creator(c) ==
    \/ \E req \in Requests : CrBegin(c, req)
    \/ \E path \in {"direct", "nil"} \cup ProxyURLs, ans \in LinkAnswers :
          CrResolve(c, path, ans)
    \/ CrReadSettings(c)
    \/ \E ok \in BOOLEAN : CrMkdirTemp(c, ok)
    \/ \E misses \in 0 .. MaxTries, draw \in PrimaryPorts, fb \in FallbackPorts :
          CrGetPort(c, misses, draw, fb)
    \/ \E ok \in BOOLEAN : CrNewClient(c, ok)
    \/ CrInitRelease(c)
    \/ \E ok \in BOOLEAN : CrInitRemove(c, ok)
    \/ \E ok \in BOOLEAN : CrAddMagnet(c, ok)
    \/ CrGotInfo(c)
    \/ CrTimeout(c)
    \/ \E m \in Magnets : CrStore(c, m)
    \/ CrDeferRelease(c)
    \/ CrDeferClose(c)
    \/ \E ok \in BOOLEAN : CrDeferRemove(c, ok)
    \/ CrReturn(c)

Toucher(t) ==
    \/ \E sid \in Hashes : ThBegin(t, sid)
    \/ ThNow(t)
    \/ ThStore(t)
    \/ ThServe(t)
    \/ ThReturn(t)

\* torrentHandler with its stream branch
Streamer(t) ==
    \/ Toucher(t)
    \/ \E isnum \in BOOLEAN, idx \in FileIndexes, vtt \in BOOLEAN :
          ThRoute(t, isnum, idx, vtt)
    \/ \E ok \in BOOLEAN : ThReadAll(t, ok)
    \/ \E out \in {"complete", "disconnect", "error", "cut"} : ThServeContent(t, out)
    \/ ThDeferClose(t)

\* torrentHandler for a request to stream the first file as it is
Stream(t) ==
    \/ \E sid \in Hashes : ThBegin(t, sid)
    \/ ThNow(t)
    \/ ThStore(t)
    \/ ThRoute(t, TRUE, 0, FALSE)
    \/ \E out \in {"complete", "disconnect", "error", "cut"} : ThServeContent(t, out)
    \/ ThDeferClose(t)
    \/ ThReturn(t)

Reaper ==
    \/ RpSweep
    \/ \E k \in Hashes : RpVisit(k)
    \/ RpCheck
    \/ RpDrop
    \/ \E ok \in BOOLEAN : RpClose(ok)
    \/ RpRelease
    \/ \E ok \in BOOLEAN : RpRemove(ok)
    \/ RpDelete
    \/ RpEnd

\* addTorrentHandler when the posted magnet is good and neither the file
\* system nor the torrent library reports an error
Create(c) ==
    \/ CrBegin(c, "magnet")
    \/ CrReadSettings(c)
    \/ CrMkdirTemp(c, TRUE)
    \/ \E misses \in 0 .. MaxTries, draw \in PrimaryPorts, fb \in FallbackPorts :
          CrGetPort(c, misses, draw, fb)
    \/ CrNewClient(c, TRUE)
    \/ CrAddMagnet(c, TRUE)
    \/ CrGotInfo(c)
    \/ CrTimeout(c)
    \/ \E m \in Magnets : CrStore(c, m)
    \/ CrReturn(c)

\* one client posting magnets, one client reading, the reaper and the clock
Next ==
    \/ Create("c1")
    \/ Toucher("t1")
    \/ Reaper
    \/ Tick

Spec == Init /\ [][Next]_vars

\* clients posting at the same time, with every failure of a creation
NextCreate == \E c \in Creators : Creator(c)

SpecCreate == InitCreate /\ [][NextCreate]_vars

\* clients reading the same session at the same time
NextTouch ==
    \/ Create("c1")
    \/ \E t \in Touchers : Toucher(t)
    \/ Tick

SpecTouch == InitTouch /\ [][NextTouch]_vars

\* one client posting a magnet, one client asking for any file in any
\* format, the reaper and the clock
NextStream ==
    \/ Create("c1")
    \/ Streamer("t1")
    \/ Reaper
    \/ Tick

SpecStream == InitStream /\ [][NextStream]_vars

\* torrentHandler with its stream branch, for a request of any file
AnyStreamer(t) ==
    \/ Toucher(t)
    \/ \E isnum \in BOOLEAN, idx \in AllIndexes, vtt \in BOOLEAN :
          ThRoute(t, isnum, idx, vtt)
    \/ \E ok \in BOOLEAN : ThReadAll(t, ok)
    \/ \E out \in {"complete", "disconnect", "error", "cut"} : ThServeContent(t, out)
    \/ ThDeferClose(t)

\* one client posting a magnet, two clients asking for any file in any
\* format
NextType ==
    \/ Create("c1")
    \/ AnyStreamer("t1")
    \/ AnyStreamer("t2")

InitType == Boot /\ conv = NoConv /\ syncServer = SyncBoot(2) /\ posts = TypePosts

SpecType == InitType /\ [][NextType]_vars

\* one client posting magnets, one client streaming a video, the reaper
\* and the clock
NextRead ==
    \/ Create("c1")
    \/ Stream("t1")
    \/ Reaper
    \/ Tick

SpecRead == Init /\ [][NextRead]_vars

\* a subtitle file is converted
InitConvert ==
    /\ Boot /\ posts = 0 /\ syncServer = SyncBoot(2)
    /\ conv \in [cues : UNION {[1 .. n -> Cues] : n \in 1 .. MaxCues},
                 vtt : {<<>>}, done : {FALSE}]

SpecConvert == InitConvert /\ [][Convert]_vars

\* a settings handler: one of the save handlers, or the GET handler
SettingsHandler(g) ==
    \/ \E todo \in ProxySaves, ok \in BOOLEAN : SvBegin(g, "proxy", todo, ok)
    \/ \E todo \in ProwlarrSaves, ok \in BOOLEAN : SvBegin(g, "prowlarr", todo, ok)
    \/ SvRLock(g)
    \/ SvAssign(g)
    \/ \E ok \in BOOLEAN : SvFile(g, ok)
    \/ SvGetRLock(g)
    \/ SvGetRead(g)
    \/ SvRUnlock(g)
    \/ SvReturn(g)

\* settings are saved and read at the same time
NextSettings == \E g \in Goroutines : SettingsHandler(g)

InitSettings == Boot /\ conv = NoConv /\ syncServer = SyncBoot(2) /\ posts = 0

SpecSettings == InitSettings /\ [][NextSettings]_vars

\* the proxy settings are saved, and metadata is fetched
ProxyHandler(g) ==
    \/ \E todo \in ProxySaves : SvBegin(g, "proxy", todo, TRUE)
    \/ SvRLock(g)
    \/ SvAssign(g)
    \/ \E ok \in BOOLEAN : SvFile(g, ok)
    \/ SvRUnlock(g)
    \/ SvClient(g)
    \/ \E path \in {"direct", "nil"} \cup ProxyURLs, ok \in BOOLEAN : SvDo(g, path, ok)
    \/ SvReturn(g)

NextProxy == \E g \in Goroutines : ProxyHandler(g)

SpecProxy == InitSettings /\ [][NextProxy]_vars

\* saveProxySettingsHandler for a body that decodes
SaveProxy(g) ==
    \/ \E todo \in ProxySaves : SvBegin(g, "proxy", todo, TRUE)
    \/ SvRLock(g)
    \/ SvAssign(g)
    \/ \E ok \in BOOLEAN : SvFile(g, ok)
    \/ SvRUnlock(g)
    \/ SvReturn(g)

\* a magnet or a link is posted, and the proxy settings are saved
NextLink ==
    \/ Creator("c1")
    \/ SaveProxy("g1")

InitLink == Boot /\ conv = NoConv /\ syncServer = SyncBoot(2) /\ posts = LinkPosts

SpecLink == InitLink /\ [][NextLink]_vars

\* addTorrentHandler for a good magnet when only the proxy dialer can fail
CreateWithProxy(c) ==
    \/ CrBegin(c, "magnet")
    \/ CrReadSettings(c)
    \/ CrMkdirTemp(c, TRUE)
    \/ \E draw \in PrimaryPorts : CrGetPort(c, 0, draw, FallbackBase)
    \/ \E ok \in BOOLEAN : CrNewClient(c, ok)
    \/ CrInitRelease(c)
    \/ CrInitRemove(c, TRUE)
    \/ CrAddMagnet(c, TRUE)
    \/ CrGotInfo(c)
    \/ \E m \in Magnets : CrStore(c, m)
    \/ CrReturn(c)

\* sessions are created while the proxy settings are saved
NextReload ==
    \/ CreateWithProxy("c1")
    \/ SaveProxy("g1")

InitReload == Boot /\ conv = NoConv /\ syncServer = SyncBoot(2) /\ posts = ReloadPosts

SpecReload == InitReload /\ [][NextReload]_vars

\* addTorrentHandler with getAvailablePort taken step by step, when the
\* posted magnet is good and nothing fails
CreateByDraws(c) ==
    \/ CrBegin(c, "magnet")
    \/ CrReadSettings(c)
    \/ CrMkdirTemp(c, TRUE)
    \/ PortLock(c)
    \/ \E r \in Intn(PrimarySpan) : PortDraw(c, r)
    \/ \E r \in Intn(FallbackSpan) : PortFallback(c, r)
    \/ CrNewClient(c, TRUE)
    \/ CrAddMagnet(c, TRUE)
    \/ CrGotInfo(c)
    \/ \E m \in Magnets : CrStore(c, m)
    \/ CrReturn(c)

\* getAvailablePort once the lock is taken
DrawPort(c) ==
    \/ \E r \in Intn(PrimarySpan) : PortDraw(c, r)
    \/ \E r \in Intn(FallbackSpan) : PortFallback(c, r)

NextPort == \E c \in Creators : CreateByDraws(c)

InitPort == Boot /\ conv = NoConv /\ syncServer = SyncBoot(2) /\ posts = PortPosts

\* clients posting magnets at the same time; a goroutine that holds
\* portMutex is scheduled again
SpecPort == InitPort /\ [][NextPort]_vars /\ \A c \in Creators : WF_vars(DrawPort(c))

\* addTorrentHandler for a good magnet when nothing fails, with
\* getAvailablePort taken step by step, rand.Intn giving a port that is
\* free, and either end of the wait for the metadata
CreateAndWait(c) ==
    \/ CrBegin(c, "magnet")
    \/ CrReadSettings(c)
    \/ CrMkdirTemp(c, TRUE)
    \/ PortLock(c)
    \/ \E r \in Intn(PrimarySpan) : Primary(r) \notin usedPorts /\ PortDraw(c, r)
    \/ CrNewClient(c, TRUE)
    \/ CrAddMagnet(c, TRUE)
    \/ CrGotInfo(c)
    \/ CrTimeout(c)
    \/ CrStore(c, [xt |-> IF c = "c1" THEN "h1" ELSE "h2", tr |-> FALSE])
    \/ CrReturn(c)

\* GET /api/v1/settings
GetSettings(g) ==
    \/ SvGetRLock(g)
    \/ SvGetRead(g)
    \/ SvRUnlock(g)
    \/ SvReturn(g)

\* cleanupSessions when neither Close nor RemoveAll reports an error
Sweeper ==
    \/ RpSweep
    \/ \E k \in Hashes : RpVisit(k)
    \/ RpCheck
    \/ RpDrop
    \/ RpClose(TRUE)
    \/ RpRelease
    \/ RpRemove(TRUE)
    \/ RpDelete
    \/ RpEnd

\* clients posting magnets at the same time, each its own, a client reading
\* the settings, the reaper and the clock
NextWait ==
    \/ \E c \in Creators : CreateAndWait(c)
    \/ GetSettings("g1")
    \/ Sweeper
    \/ Tick

InitWait == Boot /\ conv = NoConv /\ syncServer = SyncBoot(2) /\ posts = WaitPosts

SpecWait == InitWait /\ [][NextWait]_vars

\* the sync goroutine
syncCache ==
    \/ \E ok \in BOOLEAN : SyFetch(ok)
    \/ SyStore
    \/ SyEnd

\* startPeriodicSync: the first sync, and the syncs of the ticker
startPeriodicSync ==
    \/ SyStart /\ syncServer.lastSync = 0
    \/ syncCache

Ticker == SyStart /\ syncServer.lastSync > 0

handleListMovies(h) ==
    \/ \E req \in ListRequests : HlBegin(h, req)
    \/ \E ok \in BOOLEAN : HlFetch(h, ok)
    \/ HlStore(h)
    \/ HlRespond(h)
    \/ HlReturn(h)

NextList ==
    \/ startPeriodicSync
    \/ Publish
    \/ \E h \in Listers : handleListMovies(h)

InitList ==
    /\ Boot /\ conv = NoConv /\ posts = 0
    /\ \E b \in Builds : syncServer = SyncBoot(b)

\* the sync server of either text up to the first tick, yts.mx and a client
SpecList == InitList /\ [][NextList]_vars

\* handleListMovies for a page of the default listing that every sync
\* takes, one that only the first text takes, and one that no sync takes
handleListDefault(h) ==
    \/ \E n \in {1, MAX_PAGES, MAX_PAGES + 1} :
          HlBegin(h, [NoParams EXCEPT !.page = Itoa(n)])
    \/ \E ok \in BOOLEAN : HlFetch(h, ok)
    \/ HlStore(h)
    \/ HlRespond(h)
    \/ HlReturn(h)

NextSync ==
    \/ startPeriodicSync
    \/ Ticker
    \/ Publish
    \/ \E h \in Listers : handleListDefault(h)

InitSync ==
    /\ Boot /\ conv = NoConv /\ posts = 0
    /\ \E b \in Builds : syncServer = [SyncBoot(b) EXCEPT !.gets = SyncGets]

\* the sync server of either text with its ticker, yts.mx and a client
SpecSync == InitSync /\ [][NextSync]_vars

\* one client posting magnets that nobody reads, the reaper and the clock:
\* the ticker fires every 2 minutes and time passes
NextFair ==
    \/ Create("c1")
    \/ Reaper
    \/ Tick

SpecFair == Init /\ [][NextFair]_vars /\ WF_vars(Reaper) /\ WF_vars(Tick)

(***************************************************************************)
(* Who holds what.  A goroutine of addTorrentHandler holds the directory   *)
(* from os.MkdirTemp, the port from getAvailablePort and the client from   *)
(* torrent.NewClient until it releases them or hands them to the session   *)
(* it stores; a session holds them until cleanupSessions has released      *)
(* them.                                                                   *)
(***************************************************************************)
CrHoldsDir(c) ==
    cr[c].pc \in {"port", "client", "i_release", "i_remove", "add", "wait", "store",
                  "d_release", "d_close", "d_remove"}

CrHoldsPort(c) ==
    cr[c].pc \in {"client", "i_release", "add", "wait", "store", "d_release"}

CrHoldsClient(c) ==
    cr[c].pc \in {"add", "wait", "store", "d_release", "d_close"}

\* the reaper is tearing session o down and stands before one of `pcs`
InTeardown(o, pcs) == rp.sess = o /\ rp.pc \in pcs

SessHoldsClient(o) ==
    Allocated(o) /\ ~heap[o].torn /\ ~InTeardown(o, {"release", "remove", "delete"})

SessHoldsPort(o) ==
    Allocated(o) /\ ~heap[o].torn /\ ~InTeardown(o, {"remove", "delete"})

SessHoldsDir(o) ==
    Allocated(o) /\ ~heap[o].torn /\ ~InTeardown(o, {"delete"})

\* port p, directory d, the client on directory d is held by somebody
\* other than goroutine c and session o ("" and 0 leave nobody out)
PortHeldBeside(p, c, o) ==
    \/ \E b \in Creators \ {c} : CrHoldsPort(b) /\ cr[b].port = p
    \/ \E q \in Refs \ {o} : SessHoldsPort(q) /\ heap[q].Port = p

DirHeldBeside(d, c, o) ==
    \/ \E b \in Creators \ {c} : CrHoldsDir(b) /\ cr[b].dir = d
    \/ \E q \in Refs \ {o} : SessHoldsDir(q) /\ heap[q].TempDataDir = d

ClientHeldBeside(d, c, o) ==
    \/ \E b \in Creators \ {c} : CrHoldsClient(b) /\ cr[b].dir = d
    \/ \E q \in Refs \ {o} : SessHoldsClient(q) /\ heap[q].TempDataDir = d

\* the handler of goroutine c has written its response: which status first
Answered(c, status) ==
    cr[c].pc = "done" /\ cr[c].resp # <<>> /\ Head(cr[c].resp) = status

Failed(c) ==
    cr[c].pc = "done" /\ cr[c].resp # <<>> /\ Head(cr[c].resp) # 200

\* the keys for which a teardown call of this sweep has reported an error
ErrKeys == {e[1] : e \in rp.errs}

(***************************************************************************)
(* Port and directory of a session                                         *)
(***************************************************************************)
\* C1, as stated: a stored session has its port marked in usedPorts and its
\* temp directory on disk, each its own, until the reaper releases them;
\* once the reaper has torn the session down the port is no longer marked
\* and the directory is gone (unless a newer holder took them since).
C1_LeaseLifecycle ==
    \A o \in Refs :
        /\ SessHoldsPort(o) =>
              /\ heap[o].Port \in usedPorts
              /\ ~PortHeldBeside(heap[o].Port, "", o)
        /\ SessHoldsDir(o) =>
              /\ heap[o].TempDataDir \in dirs
              /\ ~DirHeldBeside(heap[o].TempDataDir, "", o)
        /\ heap[o].torn =>
              /\ heap[o].Port \in usedPorts => PortHeldBeside(heap[o].Port, "", o)
              /\ heap[o].TempDataDir \in dirs => DirHeldBeside(heap[o].TempDataDir, "", o)

\* C1, amended: the same for a port of the primary range (a port of the
\* fallback range is never marked and may be shared), and the directory
\* is gone unless os.RemoveAll reported an error.
C1_PrimaryLeaseLifecycle ==
    \A o \in Refs :
        /\ SessHoldsPort(o) =>
              /\ heap[o].Port \in Ports
              /\ heap[o].Port \in FallbackPorts => heap[o].Port \notin usedPorts
              /\ heap[o].Port \in PrimaryPorts =>
                    /\ heap[o].Port \in usedPorts
                    /\ ~PortHeldBeside(heap[o].Port, "", o)
        /\ SessHoldsDir(o) =>
              /\ heap[o].TempDataDir \in dirs
              /\ ~DirHeldBeside(heap[o].TempDataDir, "", o)
        /\ heap[o].torn =>
              /\ heap[o].Port \in usedPorts => PortHeldBeside(heap[o].Port, "", o)
              /\ heap[o].TempDataDir \in dirs =>
                    \/ heap[o].TempDataDir \in undeleted
                    \/ DirHeldBeside(heap[o].TempDataDir, "", o)

\* a session with a port of the primary range has been torn down: the port
\* is free again and the directory is gone
C1_Witness ==
    \E o \in Refs :
        /\ heap[o].torn
        /\ heap[o].Port \in PrimaryPorts
        /\ heap[o].Port \notin usedPorts
        /\ heap[o].TempDataDir \notin dirs

(***************************************************************************)
(* Failing creations                                                       *)
(***************************************************************************)
\* C2: when the handler has answered 504 for the metadata timeout, 504 is
\* all it has answered, it has stored no session, and the port, the
\* client and the temp directory of the attempt are released.
C2_TimeoutUnwinds ==
    \A c \in Creators :
        Answered(c, 504) =>
            /\ cr[c].resp = <<504>>
            /\ cr[c].sess = 0
            /\ cr[c].port \in usedPorts => PortHeldBeside(cr[c].port, c, cr[c].sess)
            /\ cr[c].dir \in clients => ClientHeldBeside(cr[c].dir, c, cr[c].sess)
            /\ cr[c].dir \in dirs =>
                  \/ cr[c].dir \in undeleted
                  \/ DirHeldBeside(cr[c].dir, c, cr[c].sess)

\* C3: when the handler has answered with an error, whichever the failing
\* step, nothing the attempt acquired is left: its port is not marked, its
\* client is not open and its temp directory does not exist (unless
\* os.RemoveAll itself failed on it).
C3_FailureUnwinds ==
    \A c \in Creators :
        Failed(c) =>
            /\ cr[c].port \in usedPorts => PortHeldBeside(cr[c].port, c, cr[c].sess)
            /\ cr[c].dir \in clients => ClientHeldBeside(cr[c].dir, c, cr[c].sess)
            /\ cr[c].dir \in dirs =>
                  \/ cr[c].dir \in undeleted
                  \/ DirHeldBeside(cr[c].dir, c, cr[c].sess)

(***************************************************************************)
(* Concurrent creations                                                    *)
(***************************************************************************)
\* C4, as stated: no two holders (sessions, goroutines of the add handler)
\* hold the same port or the same temp directory.
C4_Distinct ==
    /\ \A c \in Creators :
          /\ CrHoldsPort(c) => ~PortHeldBeside(cr[c].port, c, 0)
          /\ CrHoldsDir(c) => ~DirHeldBeside(cr[c].dir, c, 0)
    /\ \A o \in Refs :
          /\ SessHoldsPort(o) => ~PortHeldBeside(heap[o].Port, "", o)
          /\ SessHoldsDir(o) => ~DirHeldBeside(heap[o].TempDataDir, "", o)

\* C4, amended: no two holders hold the same temp directory or the same
\* port of the primary range; a port held twice is a port of the fallback
\* range.
C4_DistinctPrimary ==
    /\ \A c \in Creators :
          /\ CrHoldsPort(c) /\ cr[c].port \in PrimaryPorts =>
                cr[c].port \in usedPorts /\ ~PortHeldBeside(cr[c].port, c, 0)
          /\ CrHoldsDir(c) => cr[c].dir \in dirs /\ ~DirHeldBeside(cr[c].dir, c, 0)
    /\ \A o \in Refs :
          /\ SessHoldsPort(o) /\ heap[o].Port \in PrimaryPorts =>
                ~PortHeldBeside(heap[o].Port, "", o)
          /\ SessHoldsDir(o) => ~DirHeldBeside(heap[o].TempDataDir, "", o)

\* two creations run at the same time and hold their ports, one of the
\* primary range and one from the fallback path
C4_Witness ==
    \E c, b \in Creators :
        /\ c # b
        /\ CrHoldsPort(c) /\ cr[c].port \in PrimaryPorts
        /\ CrHoldsPort(b) /\ cr[b].port \in FallbackPorts
        /\ cr[c].dir # cr[b].dir

(***************************************************************************)
(* The reaper and the readers                                              *)
(***************************************************************************)
\* C5: the reaper tears down only a session that is idle: while it drops
\* the torrent, closes the client, releases the port, removes the
\* directory and deletes the map entry, the session has not been touched
\* for more than the idle threshold.
C5_TouchedSurvives ==
    rp.pc \in {"drop", "close", "release", "remove", "delete"} => Idle(heap[rp.sess])

\* C6: with the reaper sweeping and time passing, a session that was stored
\* and that nobody touches is torn down in the end.
C6_IdleRemoved ==
    \A o \in Refs :
        (Allocated(o) /\ ~heap[o].torn) ~> (heap[o].torn \/ ~Allocated(o))

\* C7: once the reaper has destroyed a session, whichever of its calls
\* reported an error, the session's client is closed and its torrent
\* dropped, its port is not marked, os.RemoveAll has been called on its
\* directory, and the map holds the session no more.
C7_TeardownComplete ==
    \A o \in Refs :
        heap[o].torn =>
            /\ heap[o].TempDataDir \in clients \cup torrents =>
                  ClientHeldBeside(heap[o].TempDataDir, "", o)
            /\ heap[o].Port \in usedPorts => PortHeldBeside(heap[o].Port, "", o)
            /\ heap[o].TempDataDir \in dirs =>
                  \/ heap[o].TempDataDir \in undeleted
                  \/ DirHeldBeside(heap[o].TempDataDir, "", o)
            /\ \A h \in Hashes : sessions[h] # o

\* the reaper has destroyed a session whose client reported an error on
\* Close: the port is released and the directory removed all the same
C7_Witness ==
    /\ rp.sess # 0
    /\ heap[rp.sess].torn
    /\ <<rp.key, "close">> \in rp.errs
    /\ heap[rp.sess].Port \in PrimaryPorts
    /\ heap[rp.sess].Port \notin usedPorts
    /\ heap[rp.sess].TempDataDir \notin dirs \cup clients
    /\ sessions[rp.key] = 0

\* C8: an error of a teardown call does not end the sweep.  The reaper
\* waits for the next tick only when Range has visited every key; the
\* teardown in which the error occurred is completed and counted; after
\* the error, the next session the callback finds idle is torn down like
\* any other; and the reaper can always take its next step.
C8_SweepGoesOn ==
    /\ [](rp.pc = "wait" => rp.todo = {} /\ rp.errs = {})
    /\ [](rp.pc \in {"range", "check", "drop", "close"} =>
             Cardinality(ErrKeys) <= rp.cleaned)
    /\ [](ENABLED Reaper)
    /\ [][rp.errs # {} /\ rp.pc = "check" /\ rp'.pc # "check" =>
             (rp'.pc = "drop") = Idle(heap[rp.sess])]_vars

\* a teardown of this sweep reported an error, and the sweep has since
\* torn down another session
C8_Witness ==
    /\ rp.pc = "range"
    /\ rp.errs # {}
    /\ rp.key \notin ErrKeys
    /\ rp.sess # 0
    /\ heap[rp.sess].torn
    /\ rp.cleaned = 2

\* C9: a request never moves LastUsed back: the value torrentHandler
\* writes is no older than the value the field holds.
C9_LastUsedMonotone ==
    [][\A t \in Touchers :
          ThStore(t) => heap'[th[t].ref].since <= heap[th[t].ref].since]_vars

(***************************************************************************)
(* releasePort                                                             *)
(***************************************************************************)
\* C10: releasePort is idempotent: for every state of usedPorts (the one
\* the program is in and every other set of ports) and every port, a
\* second release changes nothing, the release of a port that is not
\* marked changes nothing, and a released port is not marked.
C10_ReleaseIdempotent ==
    \A used \in {usedPorts} \cup SUBSET Ports, p \in Ports :
        /\ releasePort(releasePort(used, p), p) = releasePort(used, p)
        /\ p \notin used => releasePort(used, p) = used
        /\ p \notin releasePort(used, p)

\* the handler has released a port of the fallback range, which was
\* never marked, and the marks of the other ports are as they were
C10_Witness ==
    \E c \in Creators :
        /\ cr[c].pc = "i_remove"
        /\ cr[c].port \in FallbackPorts
        /\ usedPorts # {}

(***************************************************************************)
(* What a teardown and a request for an unknown session leave alone        *)
(***************************************************************************)
\* C11: the teardown of a session takes nothing from another session: a
\* step of the reaper's teardown releases no port, closes no client and
\* removes no directory that another holder holds, and removes no map
\* entry but the one of the session it tears down, also when a session
\* was stored under the same ID after the teardown began.
C11_TeardownOwnOnly ==
    [][rp.pc \in {"drop", "close", "release", "remove", "delete"} /\ rp' # rp =>
          /\ \A p \in usedPorts \ usedPorts' : ~PortHeldBeside(p, "", rp.sess)
          /\ \A d \in clients \ clients' : ~ClientHeldBeside(d, "", rp.sess)
          /\ \A d \in dirs \ dirs' : ~DirHeldBeside(d, "", rp.sess)
          /\ \A h \in Hashes :
                sessions[h] # 0 /\ sessions'[h] = 0 => sessions[h] = rp.sess]_vars

\* C20: a request for an ID that is not in the map is answered 404 and
\* holds no session to touch; neither the lookup nor any later step of
\* the request changes the map, a session, a port mark, a directory or a
\* client.
C20_UnknownSession ==
    /\ [](\A t \in Touchers : th[t].resp = <<404>> => th[t].pc = "done" /\ th[t].ref = 0)
    /\ [][\A t \in Touchers, sid \in Hashes :
             ThBegin(t, sid) /\ sessions[sid] = 0 => th'[t].resp = <<404>>]_vars
    /\ [][\A t \in Touchers :
             th'[t] # th[t] /\ (th[t].resp = <<404>> \/ th'[t].resp = <<404>>) =>
                 UNCHANGED <<sessions, heap, usedPorts, dirs, undeleted, clients,
                             torrents>>]_vars

\* a request for the ID of a session the reaper has removed was answered
\* 404 while another session is stored
C20_Witness ==
    \E t \in Touchers :
        /\ th[t].resp = <<404>>
        /\ \E h \in Hashes : sessions[h] # 0
        /\ \E o \in Refs : heap[o].torn

(***************************************************************************)
(* The session ID                                                          *)
(***************************************************************************)
\* C19, as stated: a call that stores a session stores it under the info
\* hash of the magnet it was given, so the ID depends on the hash alone;
\* and every session has its own client, port and temp directory.
C19_OwnResources ==
    /\ [][\A c \in Creators, m \in Magnets :
             CrStore(c, m) =>
                 /\ sessions'[m.xt] = cr'[c].sess
                 /\ heap'[cr'[c].sess].ID = m.xt
                 /\ cr[c].dir \in clients /\ cr[c].dir \in dirs]_vars
    /\ [](\A o, q \in Refs :
             Allocated(o) /\ Allocated(q) /\ o # q =>
                 /\ heap[o].TempDataDir # heap[q].TempDataDir
                 /\ heap[o].Port # heap[q].Port)

\* C19, amended: the same, but two sessions may hold the same port when it
\* is a port of the fallback range.
C19_OwnResourcesPrimary ==
    /\ [][\A c \in Creators, m \in Magnets :
             CrStore(c, m) =>
                 /\ sessions'[m.xt] = cr'[c].sess
                 /\ heap'[cr'[c].sess].ID = m.xt
                 /\ cr[c].dir \in clients /\ cr[c].dir \in dirs]_vars
    /\ [](\A o, q \in Refs :
             Allocated(o) /\ Allocated(q) /\ o # q =>
                 /\ heap[o].TempDataDir # heap[q].TempDataDir
                 /\ heap[o].Port # heap[q].Port \/ heap[o].Port \in FallbackPorts)

\* two calls for the same hash and one for another hash have stored their
\* sessions
C19_Witness ==
    \E o, q, r \in Refs :
        /\ Allocated(o) /\ Allocated(q) /\ Allocated(r)
        /\ o # q /\ heap[o].ID = heap[q].ID /\ heap[r].ID # heap[o].ID
        /\ heap[o].Port \in PrimaryPorts /\ heap[q].Port \in PrimaryPorts

(***************************************************************************)
(* Streaming                                                               *)
(***************************************************************************)
\* the request has taken the branch that converts a subtitle, and is over
VttDone(t) == th[t].pc = "done" /\ th[t].file # 0 /\ th[t].out = ""

\* C12: a subtitle of more than 10 MiB that is asked for with format=vtt
\* is answered with an error, and a body that is served was converted
\* from the whole file.
C12_BigSubtitleRejected ==
    \A t \in Touchers :
        VttDone(t) =>
            /\ TorrentFiles[th[t].file].size > SubtitleLimit => th[t].resp # <<200>>
            /\ th[t].resp = <<200>> => th[t].read = TorrentFiles[th[t].file].size

\* C15: on the branch that streams the file, the reader is open while
\* http.ServeContent runs and is closed when the handler is over, however
\* ServeContent ended; the handler leaves no reader behind when it returns.
C15_ReaderClosed ==
    /\ [](\A t \in Touchers :
             /\ th[t].pc = "servecontent" => th[t].reader = "open"
             /\ th[t].pc = "done" /\ th[t].out # "" => th[t].reader = "closed")
    /\ [][\A t \in Touchers :
             th[t].out # "" /\ th'[t].pc = "idle" => openReaders' = openReaders]_vars

\* a stream that failed because the reaper took the engine away is over,
\* and its reader is closed
C15_Witness ==
    \E t \in Touchers :
        /\ th[t].pc = "done" /\ th[t].out = "cut" /\ th[t].reader = "closed"
        /\ EngineDown(th[t].ref)

InTearing == rp.pc \in {"drop", "close", "release", "remove", "delete"}

C13_CuesConverted ==
    conv.done =>
        LET CueKept(cue) ==
                <<Replace(cue.time)>> \o cue.text \o
                    (IF cue.gap THEN << <<>> >> ELSE <<>>)
            Kept(cues) ==
                Concat([i \in 1 .. Len(cues) |->
                           Concat([j \in 1 .. Len(CueKept(cues[i])) |->
                                      CueKept(cues[i])[j] \o <<"\n">>])])
            want == Header \o Kept(conv.cues)
        IN  /\ Len(conv.vtt) >= Len(want)
            /\ SubSeq(conv.vtt, 1, Len(want)) = want
            /\ \A i \in (Len(want) + 1) .. Len(conv.vtt) : conv.vtt[i] = "\n"

(***************************************************************************)
(* Settings and the HTTP transports                                        *)
(***************************************************************************)
\* C17: while a save handler assigns to the settings it holds the write
\* lock and nobody holds a read lock: no other handler is assigning to
\* the settings or reading them at that time.
C17_WritersExclusive ==
    \A g \in Goroutines :
        sv[g].pc = "assign" =>
            /\ settingsMutex.w /\ settingsMutex.r = 0
            /\ \A o \in Goroutines \ {g} : sv[o].pc \notin {"assign", "read"}

\* C18: once the proxy settings are saved, a metadata request that starts
\* afterwards goes over the path of the settings: directly when the proxy
\* is disabled, through the proxy of the URL when it is enabled; no idle
\* connection and no dialer of earlier settings is used.
C18_NoStalePath ==
    [][\A g \in Goroutines :
          /\ sv[g].pc = "do" /\ sv'[g].pc = "done"
          /\ sv[g].saw = Proxy(settings)
          /\ \A o \in Goroutines : sv[o].kind # "proxy"
          => sv'[g].path = (IF settings.EnableProxy THEN settings.ProxyURL
                            ELSE "direct")]_vars

(***************************************************************************)
(* Link resolution                                                         *)
(***************************************************************************)
\* C14: when the handler has sent the request for a link, a redirect to a
\* magnet lets the creation go on with that magnet, and every other
\* answer (a redirect to something else, a page, no answer) ends the
\* request with 400; either way no port, directory or client was acquired
\* and no session is stored.
C14_LinkResolution ==
    [][\A c \in Creators :
          cr[c].pc = "resolve" /\ cr'[c] # cr[c] =>
              /\ \/ cr'[c].pc = "init" /\ cr'[c].resp = <<>>
                 \/ cr'[c].pc = "done" /\ cr'[c].resp = <<400>>
              /\ \A ans \in LinkAnswers, path \in {"direct"} \cup ProxyURLs :
                    CrResolve(c, path, ans) =>
                        (cr'[c].pc = "init") = (ans = "link_magnet")
              /\ UNCHANGED <<usedPorts, dirs, undeleted, clients, torrents, sessions,
                             heap>>]_vars

(***************************************************************************)
(* C21: a stream request whose file index is not a number, is negative or  *)
(* is not below the number of files is answered 400 and opens no reader on *)
(* any file; an index within the range is resolved to the file that the    *)
(* file list shows under that index.                                       *)
(***************************************************************************)
C21_IndexResolved ==
    \A t \in Touchers :
        th[t].want.stream =>
            IF ~th[t].want.isnum \/ th[t].want.idx < 0
                  \/ th[t].want.idx >= Len(listFiles)
            THEN th[t].resp = <<400>> /\ th[t].reader = "none" /\ th[t].file = 0
            ELSE /\ th[t].file \in 1 .. Len(listFiles)
                 /\ listFiles[th[t].file].index = th[t].want.idx
                 /\ th[t].reader # "none"

\* the index one past the last file was answered 400, and the last file is
\* being streamed by another request or the same one later
C21_Witness ==
    \E t \in Touchers :
        /\ th[t].want = [stream |-> TRUE, isnum |-> TRUE, idx |-> Len(listFiles)]
        /\ th[t].resp = <<400>>
        /\ th[t].reader = "none"

(***************************************************************************)
(* C22: getAvailablePort always returns a port.  It makes at most 50 draws *)
(* from 10000 .. 59999: a draw that is in usedPorts is passed over, the    *)
(* first one that is not is marked and returned; after 50 draws that were  *)
(* all in use it returns a port of 60000 .. 64999, a range apart from the  *)
(* first and within the port numbers.  The loop ends.                      *)
(***************************************************************************)
C22_PortReturned ==
    /\ [](\A c \in Creators :
            /\ cr[c].i <= MaxTries
            /\ cr[c].pc = "draw" /\ cr[c].i > 0 => cr[c].cand \in usedPorts
            /\ cr[c].port # 0 =>
                  \/ /\ cr[c].i < MaxTries
                     /\ cr[c].port = cr[c].cand
                     /\ cr[c].port \in PrimaryBase .. (PrimaryBase + PrimarySpan - 1)
                  \/ /\ cr[c].i = MaxTries
                     /\ cr[c].port \in FallbackBase .. (FallbackBase + FallbackSpan - 1)
                     /\ cr[c].port \notin PrimaryBase .. (PrimaryBase + PrimarySpan - 1)
                     /\ cr[c].port <= 65535)
    /\ [][\A c \in Creators :
            cr[c].pc = "draw" =>
               \/ cr'[c].pc = "draw" /\ cr'[c].i = cr[c].i + 1
                     /\ cr'[c].cand \in usedPorts
               \/ cr'[c].pc = "client" /\ cr[c].i < MaxTries
                     /\ cr'[c].port \notin usedPorts
                     /\ usedPorts' = usedPorts \cup {cr'[c].port}
               \/ cr'[c].pc = "client" /\ cr[c].i = MaxTries
                     /\ usedPorts' = usedPorts
               \/ cr'[c] = cr[c]]_vars
    /\ \A c \in Creators : cr[c].pc = "draw" ~> cr[c].pc = "client"

\* 50 draws were in use, and the call has returned the greatest port of the
\* last resort
C22_Witness ==
    \E c \in Creators :
        /\ cr[c].pc = "client"
        /\ cr[c].i = MaxTries
        /\ cr[c].port = FallbackBase + FallbackSpan - 1

(***************************************************************************)
(* C23: POST /session answers 400 for a link that is invalid or cannot be  *)
(* resolved, 500 when the temp directory or the engine cannot be made, 504 *)
(* when the metadata does not arrive in time, and 200 with the session ID  *)
(* only when the metadata is known: an attempt that has timed out or       *)
(* failed is never answered with a session ID.                             *)
(***************************************************************************)
C23_StatusMapping ==
    [][\A c \in Creators :
         /\ cr[c].pc \in {"idle", "resolve"} /\ cr'[c].pc = "done" =>
               Head(cr'[c].resp) = 400
         /\ cr[c].pc \in {"mkdir", "i_remove"} /\ cr'[c].pc = "done" =>
               cr'[c].resp = <<500>>
         /\ cr[c].pc = "wait" /\ Len(cr'[c].resp) > Len(cr[c].resp) =>
               cr'[c].resp = <<504>> /\ cr'[c].pc # "store"
         /\ Len(cr'[c].resp) > Len(cr[c].resp) /\ cr'[c].resp[Len(cr'[c].resp)] = 200 =>
               cr[c].pc = "store" /\ cr[c].resp = <<>> /\ cr'[c].sess # 0]_vars

(***************************************************************************)
(* C24: the sync server answers a request whose cache key is in the cache  *)
(* from the cache, without a fetch from upstream; a request whose key is   *)
(* not in the cache is fetched from upstream and, when the fetch succeeds, *)
(* stored under its key, where it stays, so that the next request with     *)
(* that key is answered from the cache.                                    *)
(***************************************************************************)
C24_CacheHitOrFill ==
    /\ [](\A h \in Listers :
            LET l == syncServer.hl[h] IN
            /\ l.hit => ~l.fetched /\ l.pc \in {"respond", "done"}
            /\ l.pc = "done" /\ l.hit => l.resp = <<200, l.data>>
            /\ l.pc = "done" /\ ~l.hit /\ l.resp[1] = 200 =>
                  l.fetched /\ l.key \in DOMAIN syncServer.data)
    /\ [][/\ \A k \in DOMAIN syncServer.data : k \in DOMAIN syncServer'.data
          /\ \A h \in Listers :
                LET l == syncServer.hl[h]
                    n == syncServer'.hl[h]
                IN  /\ l.pc = "idle" /\ n.pc # "idle" =>
                          IF n.key \in DOMAIN syncServer.data
                          THEN n.hit /\ n.pc = "respond"
                                  /\ n.data = syncServer.data[n.key]
                          ELSE ~n.hit /\ n.pc = "fetch"
                    /\ l.pc = "fetch" /\ n.pc = "store" => n.data = syncServer.upstream
                    /\ l.pc = "store" /\ n.pc # "store" =>
                          /\ n.key \in DOMAIN syncServer'.data
                          /\ syncServer'.data[n.key] = l.data]_vars

\* a request was answered from the cache under a key that no sync stores:
\* an earlier request has put it there
C24_Witness ==
    \E h \in Listers :
        /\ syncServer.hl[h].pc = "done"
        /\ syncServer.hl[h].hit
        /\ syncServer.hl[h].resp[1] = 200
        /\ \A k \in 1 .. Len(SyncTargets(syncServer.build)) :
               SyncKey(syncServer.build, k) # syncServer.hl[h].key

(***************************************************************************)
(* C25: when a fetch from upstream fails, the entries of the cache stay as *)
(* they are and are served as before: a page that syncCache fails to fetch *)
(* keeps its entry with its value, and a failed fetch for a key that is    *)
(* not in the cache is answered with an error and adds no entry.  An entry *)
(* changes only when a fetched listing is stored, and none is removed.     *)
(***************************************************************************)
C25_FailureKeepsCache ==
    [][LET s == syncServer
           n == syncServer'
       IN  /\ s.sy.pc = "fetch" /\ n.sy.failed > s.sy.failed => n.data = s.data
           /\ \A h \in Listers :
                 /\ s.hl[h].pc = "fetch" /\ n.hl[h].pc = "done" =>
                       n.data = s.data /\ n.hl[h].resp = <<500>>
                 /\ s.hl[h].pc = "idle" /\ n.hl[h].pc # "idle"
                       /\ n.hl[h].key \in DOMAIN s.data =>
                       n.hl[h].pc = "respond" /\ n.hl[h].data = s.data[n.hl[h].key]
           /\ \A k \in DOMAIN s.data :
                 /\ k \in DOMAIN n.data
                 /\ n.data[k] # s.data[k] =>
                       \/ s.sy.pc = "store" /\ n.data[k] = s.sy.data
                       \/ \E h \in Listers :
                             s.hl[h].pc = "store" /\ n.data[k] = s.hl[h].data]_vars

\* the second sync has ended with a page it failed to fetch: the entry of
\* that page holds the first listing still, other entries the second
C25_Witness ==
    /\ syncServer.lastSync = 2
    /\ syncServer.sy.pc = "idle"
    /\ syncServer.sy.failed = 1
    /\ \E j, k \in 1 .. Len(SyncTargets(syncServer.build)) :
          /\ SyncKey(syncServer.build, j) \in DOMAIN syncServer.data
          /\ SyncKey(syncServer.build, k) \in DOMAIN syncServer.data
          /\ syncServer.data[SyncKey(syncServer.build, j)] = 1
          /\ syncServer.data[SyncKey(syncServer.build, k)] = 2

(***************************************************************************)
(* C26: after a sync whose fetches have all succeeded, the cache holds an  *)
(* entry for each of the first 10 pages of the default listing (limit 20), *)
(* and a default request for one of the pages 1 .. 10 is answered from the *)
(* cache.                                                                  *)
(***************************************************************************)
C26_FirstPagesCached ==
    /\ syncServer.lastSync > 0 /\ syncServer.sy.pc = "idle"
          /\ syncServer.sy.failed = 0 =>
          \A n \in 1 .. MAX_PAGES :
              ListKey(syncServer.build, [NoParams EXCEPT !.page = Itoa(n)])
                  \in DOMAIN syncServer.data
    /\ \A h \in Listers :
          /\ syncServer.sy.failed = 0
          /\ syncServer.hl[h].pc # "idle"
          /\ \E n \in 1 .. MAX_PAGES :
                syncServer.hl[h].key
                    = ListKey(syncServer.build, [NoParams EXCEPT !.page = Itoa(n)])
          => syncServer.hl[h].hit

C28_ExtensionOnly ==
    \A t, u \in Touchers :
        /\ th[t].want.stream /\ th[t].resp = <<200>>
        /\ th[u].want.stream /\ th[u].resp = <<200>>
        /\ th[t].file = th[u].file
        => th[t].ctype = th[u].ctype

\* C28: the content type of a stream response is a function of the file
\* extension, whatever its case, and for .srt files of the format parameter:
\* .mp4, .webm, .mkv and .avi get video/mp4, video/webm, video/x-matroska
\* and video/x-msvideo; .vtt gets text/vtt and .sub text/plain; .srt gets
\* text/vtt when format=vtt is asked and text/plain otherwise; every other
\* extension, no extension and a dot in a directory name only get
\* application/octet-stream.  The types are listed file by file, in the
\* order of TorrentFiles.
C28_ContentType ==
    \A t \in Touchers :
        th[t].want.stream /\ th[t].resp = <<200>> =>
            LET subtitle == IF th[t].format = "vtt" THEN "text/vtt" ELSE "text/plain"
                types == << "video/mp4", subtitle, subtitle, subtitle, subtitle,
                            "video/webm", "video/x-matroska", "video/x-msvideo",
                            "text/vtt", "text/plain", "application/octet-stream",
                            "application/octet-stream", "application/octet-stream",
                            subtitle >>
            IN  /\ th[t].ctype = types[th[t].file]
                /\ th[t].format = "vtt" => th[t].read > 0

\* C.MKV was streamed while J.Srt was answered as a converted subtitle
C28_Witness ==
    /\ th["t1"].resp = <<200>> /\ th["t1"].file = 7
    /\ th["t1"].ctype = "video/x-matroska"
    /\ th["t2"].resp = <<200>> /\ th["t2"].file = 14
    /\ th["t2"].format = "vtt" /\ th["t2"].ctype = "text/vtt"

\* C29: a creation that waits for the metadata holds neither portMutex nor
\* settingsMutex.  While it waits, portMutex is held only by another
\* creation inside getAvailablePort and settingsMutex only by the readers
\* of the settings, and every other party can take its next step: another
\* creation reads the settings, takes portMutex when nobody is inside
\* getAvailablePort and goes on inside it, the reaper releases a port, a
\* settings request takes its read lock, and a list or stream request
\* begins.
C29_NoLockWhileWaiting ==
    \A c \in Creators :
        cr[c].pc = "wait" =>
            /\ portMutex => \E d \in Creators \ {c} : cr[d].pc = "draw"
            /\ ~settingsMutex.w
            /\ settingsMutex.r =
                   Cardinality({g \in Goroutines :
                                   sv[g].pc \in {"assign", "file", "read", "runlock"}})
            /\ \A d \in Creators \ {c} :
                   /\ cr[d].pc = "init" => ENABLED CrReadSettings(d)
                   /\ cr[d].pc = "port" /\ (\A e \in Creators : cr[e].pc # "draw")
                         => ENABLED PortLock(d)
                   /\ cr[d].pc = "draw" => ENABLED DrawPort(d)
            /\ rp.pc = "release" /\ (\A e \in Creators : cr[e].pc # "draw")
                   => ENABLED RpRelease
            /\ \A g \in Goroutines : sv[g].pc = "idle" => ENABLED SvGetRLock(g)
            /\ \A t \in Touchers : th[t].pc = "idle" => ENABLED ThBegin(t, "h1")

\* one creation waits for the metadata while the other is inside
\* getAvailablePort with the lock and a settings request holds its read lock
C29_Witness ==
    /\ cr["c1"].pc = "wait"
    /\ cr["c2"].pc = "draw"
    /\ portMutex
    /\ sv["g1"].pc = "read"
    /\ settingsMutex.r = 1

\* C30: a list or stream request that found its session writes the time
\* it has just read to LastUsed of that session before it does anything
\* else.  The handler comes to the point where it serves only by that
\* write; a reader of a file is opened, and a response other than the 404
\* of a missing session is given (the file list, the stream, or the 400 of a
\* bad file index), only from that point on.
C30_TouchedBeforeServing ==
    [][\A t \in Touchers :
          /\ th[t].pc # "serve" /\ th'[t].pc = "serve"
                => /\ th[t].pc = "store"
                   /\ th[t].ref # 0
                   /\ heap'[th[t].ref].since = th[t].now
          /\ th[t].reader = "none" /\ th'[t].reader # "none"
                => th[t].pc = "serve"
          /\ th[t].resp = <<>> /\ th'[t].resp \notin {<<>>, <<404>>}
                => th[t].pc \in {"serve", "readall", "servecontent"}
          /\ th[t].pc \in {"readall", "servecontent"}
                => th[t].reader = "open" /\ th[t].ref # 0
      ]_vars

\* a stream request for a file index out of range was answered 400, and
\* the session it found carries the time the handler wrote
C30_Witness ==
    /\ th["t1"].pc = "done"
    /\ th["t1"].resp = <<400>>
    /\ th["t1"].want.stream /\ th["t1"].want.isnum
    /\ th["t1"].ref # 0
    /\ heap[th["t1"].ref].since = 0

(***************************************************************************)
(* Resources and the session map                                           *)
(***************************************************************************)
\* C31: nothing is orphaned.  Every port marked in usedPorts, every temp
\* directory on disk (but one that os.RemoveAll failed to remove) and every
\* open client belongs to a session that is stored in the session map or
\* to a goroutine of the add handler that is still at work, also after the
\* same magnet was added again.
C31_NoOrphans ==
    LET stored == {sessions[h] : h \in Hashes} \ {0}
    IN  /\ \A p \in usedPorts :
              \/ \E c \in Creators : CrHoldsPort(c) /\ cr[c].port = p
              \/ \E o \in stored : heap[o].Port = p
        /\ \A d \in dirs \ undeleted :
              \/ \E c \in Creators : CrHoldsDir(c) /\ cr[c].dir = d
              \/ \E o \in stored : heap[o].TempDataDir = d
        /\ \A d \in clients :
              \/ \E c \in Creators : CrHoldsClient(c) /\ cr[c].dir = d
              \/ \E o \in stored : heap[o].TempDataDir = d

\* C32: a session that is stored stays in the map with its engine running
\* until a sweep of the reaper has found that very session idle.  The
\* client of a stored session is open unless the reaper is tearing that
\* session down, and an entry leaves the map only by the Delete of the
\* callback that loaded the session of that entry.
C32_StaysUntilIdle ==
    /\ [](\A h \in Hashes :
             sessions[h] # 0
             /\ ~InTeardown(sessions[h], {"close", "release", "remove", "delete"})
             => /\ heap[sessions[h]].TempDataDir \in clients
                /\ heap[sessions[h]].TempDataDir \in torrents)
    /\ [][\A h \in Hashes :
             sessions[h] # 0 /\ sessions'[h] = 0
             => rp.pc = "delete" /\ rp.sess = sessions[h]]_vars

C34_OneResponse ==
    \A c \in Creators :
        /\ Len(cr[c].resp) <= 1
        /\ cr[c].pc = "done" => Len(cr[c].resp) = 1

\* C35: validation comes before allocation.  A goroutine of the add
\* handler that has not passed the checks holds no port, no directory and
\* no client; a request with a malformed body, an empty magnet, a string
\* that is neither a magnet nor a link, or a link that does not lead to a
\* magnet is answered 400 and leaves usedPorts, the directories, the
\* clients and the session map as they were; and a port is marked, a
\* directory made or a client opened only by a goroutine that is past the
\* checks.
C35_ValidationFirst ==
    /\ [](\A c \in Creators :
             cr[c].pc \in {"idle", "resolve", "panic"}
             => cr[c].port = 0 /\ cr[c].dir = 0 /\ ~cr[c].client /\ cr[c].sess = 0)
    /\ [][/\ \A c \in Creators :
               \/ \E req \in BadRequests : CrBegin(c, req)
               \/ \E path \in {"direct", "nil"} \cup ProxyURLs,
                      ans \in LinkAnswers \ {"link_magnet"} : CrResolve(c, path, ans)
               => /\ UNCHANGED <<usedPorts, dirs, clients, torrents, sessions>>
                  /\ cr'[c].pc \in {"done", "panic"}
                  /\ cr'[c].pc = "done" => Head(cr'[c].resp) = 400
                  /\ cr'[c].port = 0 /\ cr'[c].dir = 0 /\ ~cr'[c].client
                  /\ cr'[c].sess = 0
          /\ ~(usedPorts' \subseteq usedPorts)
               => \E c \in Creators : cr[c].pc \in {"port", "draw"}
          /\ ~(dirs' \subseteq dirs) => \E c \in Creators : cr[c].pc = "mkdir"
          /\ ~(clients' \subseteq clients) => \E c \in Creators : cr[c].pc = "client"
          /\ sessions' # sessions => \E c \in Creators : cr[c].pc = "store"
         ]_vars

\* beside a stored session, a request that failed the checks was answered
\* 400 and its goroutine holds nothing
C35_Witness ==
    /\ cr["c2"].pc = "done"
    /\ cr["c2"].resp = <<400>>
    /\ cr["c2"].dir = 0 /\ cr["c2"].port = 0
    /\ \E h \in Hashes : sessions[h] # 0
    /\ Cardinality(dirs) = 1 /\ Cardinality(clients) = 1

(* The readers of the stream handler *)
\* C36: the reader opened on a subtitle for the format=vtt conversion is
\* closed before the handler returns, after a read that succeeded and
\* after one that failed; no request of the stream handler is over with
\* its reader open, and none leaves a reader behind.
C36_NoReaderLeft ==
    /\ \A t \in Touchers : th[t].pc = "done" => th[t].reader # "open"
    /\ openReaders = 0

(* The shared HTTP client *)
\* C37: resolving a link leaves the shared HTTP client as it was: whatever
\* add requests were served, with the proxy enabled or disabled, the
\* client that createSelectiveProxyClient returns follows redirects as it
\* did before.
C37_RedirectPolicyKept == http.redirect = "follow"

(* The caption lines of a converted subtitle *)
\* C38: convertSRTtoVTT removes the index lines only: the caption text
\* lines of the file, a line of digits and a line with a comma among them,
\* are the caption text lines of the output, unchanged and in their order.
C38_CaptionsKept ==
    conv.done =>
        LET IsText(line) == line \in TextLines
        IN  SelectSeq(Split(conv.vtt), IsText)
                = Concat([i \in 1 .. Len(conv.cues) |-> conv.cues[i].text])

(***************************************************************************)
(* The lock of the sync server's cache                                     *)
(***************************************************************************)
\* syncCache with the steps of its lock, started by startPeriodicSync and
\* by the ticker
syncCacheLocked ==
    \/ SyStart
    \/ \E ok \in BOOLEAN : SyFetch(ok)
    \/ SyLock
    \/ SyWrite
    \/ SyEndLock
    \/ SyStamp

\* handleListMovies with the steps of its lock, for a page every sync
\* takes and one that no sync takes
handleListLocked(h) ==
    \/ \E n \in {1, MAX_PAGES + 1} : HlRLock(h, [NoParams EXCEPT !.page = Itoa(n)])
    \/ HlLookup(h)
    \/ \E ok \in BOOLEAN : HlFetch(h, ok)
    \/ HlLock(h)
    \/ HlWrite(h)
    \/ HlRespond(h)
    \/ HlReturn(h)

handleHealth ==
    \/ HhRLock
    \/ HhRead
    \/ HhReturn

NextCache ==
    \/ syncCacheLocked
    \/ \E h \in Listers : handleListLocked(h)
    \/ handleHealth

InitCache ==
    /\ Boot /\ conv = NoConv /\ posts = 0
    /\ \E b \in Builds : syncServer = [SyncBoot(b) EXCEPT !.gets = CacheGets]

\* the sync server of either text: its syncs, a list request and a health
\* request at the same time
SpecCache == InitCache /\ [][NextCache]_vars

\* C39: cache.data and cache.lastSync are read only with the read lock
\* held and written only with the write lock held, and no handler reads
\* while syncCache or a handler writes; whoever fetches from upstream holds
\* no lock meanwhile, so that the lock is free whenever nobody is between
\* a lock and its unlock, and the sync and a request that is fetching do
\* not keep each other from taking it.
C39_CacheLocked ==
    /\ [](LET s == syncServer
              writers == (IF s.sy.pc \in {"write", "stamp"} THEN 1 ELSE 0)
                         + Cardinality({h \in Listers : s.hl[h].pc = "write"})
              readers == (IF s.hh.pc = "read" THEN 1 ELSE 0)
                         + Cardinality({h \in Listers : s.hl[h].pc = "lookup"})
          IN  /\ s.mu.w <=> writers = 1
              /\ writers <= 1
              /\ s.mu.r = readers
              /\ writers = 1 => readers = 0
              /\ s.sy.pc = "fetch" /\ s.hh.pc # "read"
                   => \A h \in Listers : (s.hl[h].pc = "store" => ENABLED HlLock(h))
              /\ s.hh.pc # "read" /\ s.sy.pc = "store"
                 /\ (\A h \in Listers : s.hl[h].pc \in {"fetch", "idle"})
                   => ENABLED SyLock)
    /\ [][LET s == syncServer
          IN  /\ s'.data # s.data \/ s'.lastSync # s.lastSync
                   => s.mu.w /\ s.mu.r = 0 /\ ~s'.mu.w
              /\ \A h \in Listers :
                    s.hl[h].pc = "lookup" /\ s'.hl[h].pc # "lookup"
                    => ~s.mu.w /\ s.mu.r > 0 /\ s'.data = s.data
              /\ s.hh.pc = "read" /\ s'.hh.pc # "read"
                    => /\ ~s.mu.w /\ s.mu.r > 0
                       /\ s'.hh.resp = <<200, s.lastSync, Cardinality(DOMAIN s.data)>>
         ]_vars

\* a request is fetching from upstream while the sync of the ticker holds
\* the write lock
C39_Witness ==
    /\ syncServer.sy.pc = "write" /\ syncServer.mu.w
    /\ syncServer.lastSync > 0
    /\ \E h \in Listers : syncServer.hl[h].pc = "fetch"

====
